---- MODULE Spec2Model ----
(***************************************************************************)
(* Model of the CSV to multi-website generator.                            *)
(*   generate()                      src/generator/index.js, lines 11-101  *)
(*   runCommand, buildWebsite, buildWebsitesParallel (websiteBuilder.js)   *)
(*                                   src/generator/index.js, lines 120-336 *)
(*   parseCSV (csvParser.js)         stores/websiteStore.js, lines 25-101  *)
(*   buildWebsite, buildWebsitesSequential, generateBuildSummary           *)
(*   (websiteBuilderFixed.js)        stores/websiteStore.js, lines 102-278 *)
(* A run is either generate(), which drives buildWebsitesSequential, or a  *)
(* call of buildWebsitesParallel followed by generateBuildSummary.         *)
(* Strings that the code trims or compares are sequences of characters.    *)
(* Every awaited operation of buildWebsite is one step of its row; the     *)
(* synchronous code between two awaits belongs to the step before it.      *)
(* processTemplate (templateProcessor.js, lines 20-52) and the filter of   *)
(* copyTemplate are functions of their arguments: TemplateSpec and         *)
(* TreeSpec apply them to bounded inputs.  FairSpec is Spec from a run     *)
(* that has rows to build, under weak fairness of every step.              *)
(* DirectorySpec is one call of processDirectory (templateProcessor.js,    *)
(* lines 59-124) over the files of a website directory, and ManifestSpec   *)
(* follows the package.json of one row through processDirectory and the    *)
(* finalize statements of buildWebsite.                                    *)
(* ChunkSpec is one call of buildWebsitesParallel with a group size of     *)
(* any value that parseInt can yield, and CommandSpec is one call of       *)
(* runCommand with the events of its child process in every order.         *)
(***************************************************************************)
EXTENDS Integers, Sequences, FiniteSets, TLC

\* ---------------------------------------------------------------- bounds
MaxRows == 2
MaxConcurrent == 2
MaxSegments == 2
MaxDepth == 2
MaxDomainLen == 2
MaxDataEvents == 2

\* ------------------------------------------------------------ basic values
\* parseInt(process.env.PARALLEL_BUILDS || '3')
DefaultParallelBuilds == 3

None == [none |-> TRUE]

\* no call of the function is in progress
Idle == [phase |-> "idle"]
Undefined == <<"\\undefined">>

\* the error object caught by generate(): its kind and the lines of its message
GenFailure(kind, entries) == [kind |-> kind, entries |-> entries]
NoError == GenFailure("none", <<>>)

requiredFields == <<"domain", "title", "description", "phone", "address">>

RequiredSet == {requiredFields[k] : k \in 1..Len(requiredFields)}

\* the characters that String.prototype.trim strips and that \s matches
WhiteSpace == {" ", "\t", "\n", "\r"}

\* String.prototype.trim on a sequence of characters
RECURSIVE TrimLeft(_)
TrimLeft(s) ==
  IF s # <<>> /\ Head(s) \in WhiteSpace THEN TrimLeft(Tail(s)) ELSE s

RECURSIVE TrimRight(_)
TrimRight(s) ==
  IF s # <<>> /\ s[Len(s)] \in WhiteSpace THEN TrimRight(SubSeq(s, 1, Len(s) - 1)) ELSE s

Trim(s) == TrimRight(TrimLeft(s))

\* --------------------------------------------------------------- csvParser
\* papa.parse(csvFile, {header: true, transform: trim}): cells are mapped to
\* the header's columns by position; a line whose cell count differs from
\* the header's is reported in errors (FieldMismatch) with its row index.
PapaField(header, cells, f) ==
  IF \E k \in 1..Len(header) : header[k] = f /\ k <= Len(cells)
  THEN Trim(cells[CHOOSE k \in 1..Len(header) : header[k] = f /\ k <= Len(cells)])
  ELSE Undefined

PapaData(file) ==
  [i \in 1..Len(file.lines) |->
     [f \in RequiredSet |-> PapaField(file.header, file.lines[i], f)]]

PapaErrorRows(file) ==
  {i \in 1..Len(file.lines) : Len(file.lines[i]) # Len(file.header)}

\* the sequence of the elements of a set of naturals, ascending
RECURSIVE SortedSeq(_)
SortedSeq(S) ==
  IF S = {} THEN <<>>
  ELSE LET m == CHOOSE x \in S : \A y \in S : x <= y
       IN <<m>> \o SortedSeq(S \ {m})

\* errors.map(error => `Row ${error.row}: ${error.message}`); error.row is
\* the zero-based index of the data row
PapaErrors(file) ==
  LET rs == SortedSeq(PapaErrorRows(file))
  IN [k \in 1..Len(rs) |-> [row |-> rs[k] - 1, message |-> "FieldMismatch"]]

\* !row[field] || row[field].trim() === ''
IsMissing(v) == v = Undefined \/ v = <<>> \/ Trim(v) = <<>>

\* variant: the row is numbered without counting the header line
MissingEntry_NoHeaderLine(index, field) == [row |-> index + 1, field |-> field]

\* `Row ${index + 2}: Missing required field '${field}'`, index zero-based
MissingEntry(index, field) == [row |-> index + 2, field |-> field]

\* data.forEach((row, index) => requiredFields.forEach(field => ...))
MissingFields(data) ==
  LET nf == Len(requiredFields)
      all == [k \in 1..(Len(data) * nf) |->
                [i |-> ((k - 1) \div nf) + 1, f |-> requiredFields[((k - 1) % nf) + 1]]]
      bad == SelectSeq(all, LAMBDA p : IsMissing(data[p.i][p.f]))
  IN [k \in 1..Len(bad) |-> MissingEntry(bad[k].i - 1, bad[k].f)]

parseCSV(file) ==
  IF ~file.exists THEN [ok |-> FALSE, kind |-> "notFound", entries |-> <<>>]
  ELSE IF file.header = <<>> THEN [ok |-> FALSE, kind |-> "empty", entries |-> <<>>]
  ELSE IF PapaErrors(file) # <<>>
       THEN [ok |-> FALSE, kind |-> "parsing", entries |-> PapaErrors(file)]
  ELSE IF Len(PapaData(file)) = 0 THEN [ok |-> FALSE, kind |-> "noData", entries |-> <<>>]
  ELSE IF MissingFields(PapaData(file)) # <<>>
       THEN [ok |-> FALSE, kind |-> "validation", entries |-> MissingFields(PapaData(file))]
  ELSE [ok |-> TRUE, data |-> PapaData(file)]

\* ------------------------------------------------------------------ inputs
DomainCells == {<<"a">>, <<"b", " ">>}
PhoneCells == {<<"1">>, <<>>, <<" ">>}
FullHeader == requiredFields
NoPhoneHeader == <<"domain", "title", "description", "address">>

\* one CSV line under a header: a cell per column, the last cell optionally absent
LineFor(header, d, p, short) ==
  LET full == [k \in 1..Len(header) |->
                 IF header[k] = "domain" THEN d
                 ELSE IF header[k] = "phone" THEN p ELSE <<"x">>]
  IN IF short THEN SubSeq(full, 1, Len(full) - 1) ELSE full

LinesFor(header) ==
  {LineFor(header, d, <<"1">>, FALSE) : d \in DomainCells}
  \cup {LineFor(header, <<"a">>, p, FALSE) : p \in PhoneCells}
  \cup {LineFor(header, <<"a">>, <<"1">>, TRUE)}

SeqsUpTo(S, n) == UNION {[1..k -> S] : k \in 0..n}

CsvFiles ==
  {[exists |-> FALSE, header |-> <<>>, lines |-> <<>>],
   [exists |-> TRUE, header |-> <<>>, lines |-> <<>>]}
  \cup {[exists |-> TRUE, header |-> h, lines |-> ls] :
          h \in {FullHeader}, ls \in SeqsUpTo(LinesFor(FullHeader), MaxRows)}
  \cup {[exists |-> TRUE, header |-> h, lines |-> ls] :
          h \in {NoPhoneHeader}, ls \in SeqsUpTo(LinesFor(NoPhoneHeader), MaxRows)}

AllDomains == {Trim(d) : d \in DomainCells}

\* ------------------------------------------------------------------- state
VARIABLES
  entry,          \* "generate": index.js generate(); "parallel": a caller of buildWebsitesParallel
  csv,            \* the CSV file at config.csvPath
  templateExists, \* config.templatePath exists
  hasManifest,    \* the template has a package.json
  maxConcurrent,  \* config.parallelBuilds / the maxConcurrent argument
  tpl,            \* a call of processTemplate: its arguments and, once returned, its result
  tree,           \* a call of fs.copy with the template filter: the template tree and the copy
  walk,           \* a call of processDirectory: the directory, the files on disk, its progress
  pkg,            \* the package.json of one row, from the template to the finalized manifest
  par,            \* a call of buildWebsitesParallel with a group size of any value
  child,          \* a call of runCommand: the events of the child process and the promise
  gpc,            \* position of the run
  exitStatus,     \* -1 while the process has not ended, else its exit status
  genError,       \* what the catch block of generate() caught
  websites,       \* the rows returned by parseCSV
  root,           \* config.buildPath: "absent" or "exists"
  rootOps,        \* operations performed on config.buildPath by generate()
  dirOwner,       \* per website directory: 0 absent, -1 left by a previous run, i copied by row i
  pc,             \* per row: the operation its buildWebsite call awaits, or its terminal state
  log,            \* per row: the operations started, in order
  outcome,        \* per row: the outcomes of its completed operations, in order
  ret,            \* per row: the value its buildWebsite call resolved with
  exits,          \* per row: the commands it spawned and how each process ended
  cur,            \* loop position: awaited row (sequential) or awaited chunk (parallel)
  results,        \* the results array of the orchestrator
  summary         \* build-summary.md

vars == <<entry, csv, templateExists, hasManifest, maxConcurrent, tpl, tree, walk, pkg, par,
          child, gpc,
          exitStatus,
          genError, websites, root, rootOps, dirOwner, pc, log, outcome,
          ret, exits, cur, results, summary>>

inputVars == <<entry, csv, templateExists, hasManifest, maxConcurrent, tpl, tree, walk, pkg, par,
              child>>
rowVars == <<dirOwner, pc, log, outcome, ret, exits>>

Rows == 1..Len(websites)

Pending(n) == [i \in 1..n |-> "pending"]
Empty(n) == [i \in 1..n |-> <<>>]
Unsettled(n) == [i \in 1..n |-> None]

InitDirs(r) == [d \in AllDomains |-> IF r = "exists" THEN -1 ELSE 0]

Init ==
  /\ tpl = Idle
  /\ tree = Idle
  /\ walk = Idle
  /\ pkg = Idle
  /\ par = Idle
  /\ child = Idle
  /\ entry \in {"generate", "parallel"}
  /\ csv \in CsvFiles
  /\ templateExists \in BOOLEAN
  /\ hasManifest \in BOOLEAN
  /\ root \in {"absent", "exists"}
  /\ IF entry = "generate"
     THEN /\ maxConcurrent \in {1, DefaultParallelBuilds}
          /\ gpc = "checkCsv"
          /\ websites = <<>>
     ELSE \* buildWebsitesParallel is called with rows that parseCSV returned,
          \* an existing template and an output directory of an earlier run
          /\ maxConcurrent \in 1..MaxConcurrent
          /\ templateExists
          /\ root = "exists"
          /\ parseCSV(csv).ok
          /\ gpc = "build"
          /\ websites = parseCSV(csv).data
  /\ exitStatus = -1
  /\ genError = NoError
  /\ rootOps = <<>>
  /\ dirOwner = InitDirs(root)
  /\ pc = Pending(Len(websites))
  /\ log = Empty(Len(websites))
  /\ outcome = Empty(Len(websites))
  /\ ret = Unsettled(Len(websites))
  /\ exits = Empty(Len(websites))
  /\ cur = 0
  /\ results = <<>>
  /\ summary = None

\* ------------------------------------------------------------ buildWebsite
Operations == <<"ensureDir", "remove", "copy", "processDirectory", "pathExists",
                "readJson", "writeJson", "installDependencies", "buildReactApp">>

OperationSet == {Operations[k] : k \in 1..Len(Operations)}

Terminal == {"succeeded", "failed"}

Domain(i) == websites[i]["domain"]

\* path.join(outputPath, domain)
WebsitePath(domain) == <<"buildPath", domain>>

\* the state of the row's state machine that an awaited operation belongs to
RowState(p) ==
  CASE p \in {"ensureDir", "remove", "copy"} -> "materializing"
    [] p = "processDirectory" -> "substituting"
    [] p \in {"pathExists", "readJson", "writeJson"} -> "finalizing"
    [] p = "installDependencies" -> "installing"
    [] p = "buildReactApp" -> "building"
    [] OTHER -> p

Started(i) == pc[i] # "pending"
InFlight(i) == pc[i] \in OperationSet
Settled(i) == ret[i] # None

\* variant: the manifest is finalized before the files are processed
NextOp_FinalizeFirst(op, exists) ==
  CASE op = "ensureDir" -> "remove"
    [] op = "remove" -> "copy"
    [] op = "copy" -> "pathExists"
    [] op = "pathExists" -> IF exists THEN "readJson" ELSE "processDirectory"
    [] op = "readJson" -> "writeJson"
    [] op = "writeJson" -> "processDirectory"
    [] op = "processDirectory" -> "installDependencies"
    [] op = "installDependencies" -> "buildReactApp"
    [] op = "buildReactApp" -> "succeeded"

\* the statement that follows an operation of the try block
NextOp(op, exists) ==
  CASE op = "ensureDir" -> "remove"
    [] op = "remove" -> "copy"
    [] op = "copy" -> "processDirectory"
    [] op = "processDirectory" -> "pathExists"
    [] op = "pathExists" -> IF exists THEN "readJson" ELSE "installDependencies"
    [] op = "readJson" -> "writeJson"
    [] op = "writeJson" -> "installDependencies"
    [] op = "installDependencies" -> "buildReactApp"
    [] op = "buildReactApp" -> "succeeded"

\* variant: the rejection of installDependencies is swallowed
AfterStep_SwallowInstall(op, ok, exists) ==
  IF ok \/ op = "installDependencies" THEN NextOp(op, exists) ELSE "failed"

\* variant: a project without package.json fails the row
AfterStep_ManifestRequired(op, ok, exists) ==
  IF ok /\ (op # "pathExists" \/ exists) THEN NextOp(op, exists) ELSE "failed"

\* try { await op; ... } catch (error) { return failure }
AfterStep(op, ok, exists) == IF ok THEN NextOp(op, exists) ELSE "failed"

ErrorMessage(op) == <<"Error", op>>

BuildSuccess(domain) == [domain |-> domain, success |-> TRUE, path |-> WebsitePath(domain)]
\* variant: the failure also names the directory
BuildFailure_WithPath(domain, op) ==
  [domain |-> domain, success |-> FALSE, error |-> ErrorMessage(op),
   path |-> WebsitePath(domain)]

BuildFailure(domain, op) == [domain |-> domain, success |-> FALSE, error |-> ErrorMessage(op)]

\* the awaited operation op of row i completes; exists is what pathExists saw
Complete(i, op, ok, exists) ==
  LET nxt == AfterStep(op, ok, exists)
  IN /\ pc' = [pc EXCEPT ![i] = nxt]
     /\ log' = [log EXCEPT ![i] = IF nxt \in OperationSet THEN Append(@, nxt) ELSE @]
     /\ outcome' = [outcome EXCEPT ![i] = Append(@, IF ok THEN "ok" ELSE "fail")]
     /\ ret' = [ret EXCEPT ![i] =
                  IF nxt = "succeeded" THEN BuildSuccess(Domain(i))
                  ELSE IF nxt = "failed" THEN BuildFailure(Domain(i), op)
                  ELSE @]

DirPresent(i) == dirOwner[Domain(i)] # 0
ManifestPresent(i) == hasManifest /\ DirPresent(i)

runVars == <<gpc, exitStatus, genError, websites, rootOps, cur, results, summary>>

\* variant: the end of the build command is never delivered
Awaiting_ExceptBuild(i, op) ==
  gpc = "build" /\ i \in Rows /\ pc[i] = op /\ op # "buildReactApp"

Awaiting(i, op) == gpc = "build" /\ i \in Rows /\ pc[i] = op

\* how a spawned process ends: the 'close' event with its exit code, or the
\* 'error' event when it could not be spawned (execSync: it returns or throws)
ExitCodes == {0, 1}
ProcessEnds == [event : {"close"}, code : ExitCodes] \cup {[event |-> "error", code |-> -1]}

\* variant: the promise resolves whenever the process has exited
CommandResolves_AnyExit(end) == end.event = "close"

\* child.on('close', code => code === 0 ? resolve(...) : reject(...));
\* child.on('error', error => reject(error))
CommandResolves(end) == end.event = "close" /\ end.code = 0

Spawned(cmd, end) == [cmd |-> cmd, end |-> end]

\* await fs.ensureDir(outputPath)
EnsureDirDone(i) ==
  /\ Awaiting(i, "ensureDir")
  /\ \E ok \in BOOLEAN :
       /\ Complete(i, "ensureDir", ok, FALSE)
       /\ root' = IF ok THEN "exists" ELSE root
  /\ UNCHANGED <<inputVars, runVars, dirOwner, exits>>

\* variant: the directory of an earlier run is kept and copied over
Removed_KeepsEarlierRun(dirs, d) == IF dirs[d] = -1 THEN dirs ELSE [dirs EXCEPT ![d] = 0]

\* the website directories when fs.remove has removed the directory of domain d
Removed(dirs, d) == [dirs EXCEPT ![d] = 0]

\* await fs.remove(websitePath)
RemoveDone(i) ==
  /\ Awaiting(i, "remove")
  /\ \E ok \in BOOLEAN :
       /\ Complete(i, "remove", ok, FALSE)
       /\ dirOwner' = IF ok THEN Removed(dirOwner, Domain(i)) ELSE dirOwner
  /\ UNCHANGED <<inputVars, runVars, root, exits>>

\* await fs.copy(templatePath, websitePath, {filter}); a failed copy may
\* already have written a part of the tree
CopyDone(i) ==
  /\ Awaiting(i, "copy")
  /\ \E ok \in BOOLEAN, wrote \in BOOLEAN :
       /\ ok => wrote /\ templateExists /\ root = "exists"
       /\ Complete(i, "copy", ok, FALSE)
       /\ dirOwner' = IF wrote THEN [dirOwner EXCEPT ![Domain(i)] = i] ELSE dirOwner
  /\ UNCHANGED <<inputVars, runVars, root, exits>>

\* await processDirectory(websitePath, data): rewrites files in place; on a
\* failure the files already rewritten stay rewritten
ProcessDirectoryDone(i) ==
  /\ Awaiting(i, "processDirectory")
  /\ \E ok \in BOOLEAN :
       /\ ok => DirPresent(i)
       /\ Complete(i, "processDirectory", ok, FALSE)
  /\ UNCHANGED <<inputVars, runVars, root, dirOwner, exits>>

\* if (await fs.pathExists(packageJsonPath)): resolves true or false, never rejects
PathExistsDone(i) ==
  /\ Awaiting(i, "pathExists")
  /\ Complete(i, "pathExists", TRUE, ManifestPresent(i))
  /\ UNCHANGED <<inputVars, runVars, root, dirOwner, exits>>

\* const packageJson = await fs.readJson(packageJsonPath)
ReadJsonDone(i) ==
  /\ Awaiting(i, "readJson")
  /\ \E ok \in BOOLEAN :
       /\ ok => ManifestPresent(i)
       /\ Complete(i, "readJson", ok, FALSE)
  /\ UNCHANGED <<inputVars, runVars, root, dirOwner, exits>>

\* await fs.writeJson(packageJsonPath, packageJson, { spaces: 2 })
WriteJsonDone(i) ==
  /\ Awaiting(i, "writeJson")
  /\ \E ok \in BOOLEAN :
       /\ ok => DirPresent(i)
       /\ Complete(i, "writeJson", ok, FALSE)
  /\ UNCHANGED <<inputVars, runVars, root, dirOwner, exits>>

\* await installDependencies(websitePath): npm writes node_modules into the directory
InstallDone(i) ==
  /\ Awaiting(i, "installDependencies")
  /\ \E end \in ProcessEnds :
       /\ ~DirPresent(i) => end.event = "error"
       /\ Complete(i, "installDependencies", CommandResolves(end), FALSE)
       /\ exits' = [exits EXCEPT ![i] = Append(@, Spawned("installDependencies", end))]
  /\ UNCHANGED <<inputVars, runVars, root, dirOwner>>

\* await buildReactApp(websitePath): the build writes its output into the directory
BuildDone(i) ==
  /\ Awaiting(i, "buildReactApp")
  /\ \E end \in ProcessEnds :
       /\ ~DirPresent(i) => end.event = "error"
       /\ Complete(i, "buildReactApp", CommandResolves(end), FALSE)
       /\ exits' = [exits EXCEPT ![i] = Append(@, Spawned("buildReactApp", end))]
  /\ UNCHANGED <<inputVars, runVars, root, dirOwner>>

\* ------------------------------------------------------------ orchestrators
\* the synchronous start of buildWebsite for every row of S, up to its first await
StartRows(S) ==
  /\ pc' = [i \in Rows |-> IF i \in S THEN "ensureDir" ELSE pc[i]]
  /\ log' = [i \in Rows |-> IF i \in S THEN Append(log[i], "ensureDir") ELSE log[i]]

\* variant: the result is put in front of the earlier ones
Push_Front(rs, r) == <<r>> \o rs

\* results.push(result)
Push(rs, r) == Append(rs, r)

\* variant: the loop ends at the first failed row
SeqHasNext_StopOnFailure(k) == k < Len(websites) /\ (k = 0 \/ ret[k].success)

\* variant: the loop ends one row early
SeqHasNext_SkipLast(k) == k + 1 < Len(websites)

\* for (const website of websites): is there a row after row k
SeqHasNext(k) == k < Len(websites)

\* variant: buildWebsite is not awaited
SeqAwaitDone_NoAwait(k) == k \in Rows

\* const result = await buildWebsite(...): the loop resumes when row k has settled
SeqAwaitDone(k) == k \in Rows /\ ret[k] # None

\* buildWebsitesSequential: one turn of the loop, from the resumption of
\* `await buildWebsite(...)` to the next await or the return
SequentialTurn ==
  /\ gpc = "build"
  /\ cur = 0 \/ SeqAwaitDone(cur)
  /\ results' = IF cur = 0 THEN results ELSE Push(results, ret[cur])
  /\ IF SeqHasNext(cur)
     THEN /\ StartRows({cur + 1})
          /\ cur' = cur + 1
          /\ gpc' = gpc
     ELSE /\ gpc' = "summary"
          /\ UNCHANGED <<pc, log, cur>>
  /\ UNCHANGED <<inputVars, exitStatus, genError, websites, root, rootOps, dirOwner,
                 outcome, ret, exits, summary>>

\* websiteBuilderFixed.js: generate() awaits buildWebsitesSequential
BuildWebsitesSequential == entry = "generate" /\ SequentialTurn

\* variant: the slice takes one row more than the group size
Slice_OneMore(i, j, n) ==
  LET hi == IF j + 1 < n THEN j + 1 ELSE n
  IN [k \in 1..(IF hi > i THEN hi - i ELSE 0) |-> i + k]

\* websites.slice(i, j) as the sequence of row numbers i+1 .. min(j, n)
Slice(i, j, n) ==
  LET hi == IF j < n THEN j ELSE n
  IN [k \in 1..(IF hi > i THEN hi - i ELSE 0) |-> i + k]

\* for (let i = 0; i < websites.length; i += maxConcurrent) chunks.push(slice(i, i + maxConcurrent))
RECURSIVE ChunksFrom(_, _, _)
ChunksFrom(i, n, m) ==
  IF i < n THEN <<Slice(i, i + m, n)>> \o ChunksFrom(i + m, n, m) ELSE <<>>

Chunks == ChunksFrom(0, Len(websites), maxConcurrent)

ChunkRows(c) == {Chunks[c][k] : k \in 1..Len(Chunks[c])}

\* variant: only the results of the rows that succeeded are collected
PushAll_OnlySuccessful(rs, chunk) ==
  rs \o SelectSeq([k \in 1..Len(chunk) |-> ret[chunk[k]]], LAMBDA r : r.success)

\* results.push(...chunkResults), chunkResults in the order of the chunk
PushAll(rs, chunk) == rs \o [k \in 1..Len(chunk) |-> ret[chunk[k]]]

\* buildWebsitesParallel: one turn of the chunk loop, from the resumption of
\* `await Promise.all(promises)` to the next await or the return
ParallelTurn ==
  /\ gpc = "build"
  /\ cur = 0 \/ (cur \in 1..Len(Chunks) /\ \A i \in ChunkRows(cur) : Settled(i))
  /\ results' = IF cur = 0 THEN results ELSE PushAll(results, Chunks[cur])
  /\ IF cur < Len(Chunks)
     THEN /\ StartRows(ChunkRows(cur + 1))
          /\ cur' = cur + 1
          /\ gpc' = gpc
     ELSE /\ gpc' = "summary"
          /\ UNCHANGED <<pc, log, cur>>
  /\ UNCHANGED <<inputVars, exitStatus, genError, websites, root, rootOps, dirOwner,
                 outcome, ret, exits, summary>>

\* websiteBuilder.js: a caller awaits buildWebsitesParallel
BuildWebsitesParallel == entry = "parallel" /\ ParallelTurn

\* ------------------------------------------------------ generateBuildSummary
Times == {"t1", "t2"}

Indices(rs) == [k \in 1..Len(rs) |-> k]

\* variant: the failed rows are not listed
SummaryContent_NoFailedLines(rs, now) ==
  LET successful == SelectSeq(Indices(rs), LAMBDA k : rs[k].success)
      failed == SelectSeq(Indices(rs), LAMBDA k : ~rs[k].success)
  IN [total |-> Len(rs),
      successful |-> Len(successful),
      failed |-> Len(failed),
      lines |->
        [j \in 1..Len(successful) |->
           [section |-> "Successful Builds", result |-> successful[j],
            domain |-> rs[successful[j]].domain,
            text |-> <<"./", rs[successful[j]].domain, "/build/index.html">>]]
        \o [j \in 1..Len(successful) |->
           [section |-> "Quick Links", result |-> successful[j],
            domain |-> rs[successful[j]].domain,
            text |-> <<"file://", rs[successful[j]].path, "build", "index.html">>]],
      generatedOn |-> now]

SummaryContent(rs, now) ==
  LET successful == SelectSeq(Indices(rs), LAMBDA k : rs[k].success)
      failed == SelectSeq(Indices(rs), LAMBDA k : ~rs[k].success)
  IN [total |-> Len(rs),
      successful |-> Len(successful),
      failed |-> Len(failed),
      lines |->
        [j \in 1..Len(successful) |->
           [section |-> "Successful Builds", result |-> successful[j],
            domain |-> rs[successful[j]].domain,
            text |-> <<"./", rs[successful[j]].domain, "/build/index.html">>]]
        \o [j \in 1..Len(failed) |->
           [section |-> "Failed Builds", result |-> failed[j],
            domain |-> rs[failed[j]].domain,
            text |-> rs[failed[j]].error]]
        \o [j \in 1..Len(successful) |->
           [section |-> "Quick Links", result |-> successful[j],
            domain |-> rs[successful[j]].domain,
            text |-> <<"file://", rs[successful[j]].path, "build", "index.html">>]],
      generatedOn |-> now]

\* ---------------------------------------------------------------- generate

\* catch (error) { ...; process.exit(1) }
CatchExit(err) ==
  /\ genError' = err
  /\ exitStatus' = 1
  /\ gpc' = "exited"

\* variant: failed rows make the run end with a failure status
FinalStatus_FailOnFailedRows(rs) == IF \E k \in 1..Len(rs) : ~rs[k].success THEN 1 ELSE 0

\* the statements after generateBuildSummary only print; the process then ends
FinalStatus(rs) == 0

CheckCsvPath ==
  /\ gpc = "checkCsv"
  /\ IF csv.exists
     THEN gpc' = "checkTemplate" /\ UNCHANGED <<genError, exitStatus>>
     ELSE CatchExit(GenFailure("csvNotFound", <<>>))
  /\ UNCHANGED <<inputVars, websites, root, rootOps, rowVars, cur, results, summary>>

CheckTemplatePath ==
  /\ gpc = "checkTemplate"
  /\ IF templateExists
     THEN gpc' = "parse" /\ UNCHANGED <<genError, exitStatus>>
     ELSE CatchExit(GenFailure("templateNotFound", <<>>))
  /\ UNCHANGED <<inputVars, websites, root, rootOps, rowVars, cur, results, summary>>

\* const websites = await parseCSV(config.csvPath)
ParseCsvFile ==
  /\ gpc = "parse"
  /\ LET r == parseCSV(csv)
     IN IF r.ok
        THEN /\ websites' = r.data
             /\ pc' = Pending(Len(r.data))
             /\ log' = Empty(Len(r.data))
             /\ outcome' = Empty(Len(r.data))
             /\ ret' = Unsettled(Len(r.data))
             /\ exits' = Empty(Len(r.data))
             /\ gpc' = "clean"
             /\ UNCHANGED <<genError, exitStatus>>
        ELSE /\ CatchExit(GenFailure(r.kind, r.entries))
             /\ UNCHANGED <<websites, pc, log, outcome, ret, exits>>
  /\ UNCHANGED <<inputVars, root, rootOps, dirOwner, cur, results, summary>>

\* await fs.remove(config.buildPath)
CleanBuildDir ==
  /\ gpc = "clean"
  /\ \E ok \in BOOLEAN :
       IF ok
       THEN /\ root' = "absent"
            /\ dirOwner' = [d \in AllDomains |-> 0]
            /\ rootOps' = Append(rootOps, "remove")
            /\ gpc' = "ensureDir"
            /\ UNCHANGED <<genError, exitStatus>>
       ELSE /\ CatchExit(GenFailure("remove", <<>>))
            /\ UNCHANGED <<root, dirOwner, rootOps>>
  /\ UNCHANGED <<inputVars, websites, pc, log, outcome, ret, exits, cur, results, summary>>

\* await fs.ensureDir(config.buildPath)
EnsureBuildDir ==
  /\ gpc = "ensureDir"
  /\ \E ok \in BOOLEAN :
       IF ok
       THEN /\ root' = "exists"
            /\ rootOps' = Append(rootOps, "ensureDir")
            /\ gpc' = "build"
            /\ UNCHANGED <<genError, exitStatus>>
       ELSE /\ CatchExit(GenFailure("ensureDir", <<>>))
            /\ UNCHANGED <<root, rootOps>>
  /\ UNCHANGED <<inputVars, websites, rowVars, cur, results, summary>>

\* await generateBuildSummary(results, config.buildPath), then the rest of generate()
GenerateBuildSummary ==
  /\ gpc = "summary"
  /\ \E ok \in BOOLEAN, now \in Times :
       IF ok
       THEN /\ summary' = SummaryContent(results, now)
            /\ gpc' = "finished"
            /\ exitStatus' = IF entry = "generate" THEN FinalStatus(results) ELSE exitStatus
            /\ UNCHANGED genError
       ELSE /\ UNCHANGED summary
            /\ IF entry = "generate"
               THEN CatchExit(GenFailure("writeSummary", <<>>))
               ELSE /\ genError' = GenFailure("writeSummary", <<>>)
                    /\ gpc' = "finished"
                    /\ UNCHANGED exitStatus
  /\ UNCHANGED <<inputVars, websites, root, rootOps, rowVars, cur, results>>

\* -------------------------------------------------------------------- spec
RowStep(i) ==
  \/ EnsureDirDone(i)
  \/ RemoveDone(i)
  \/ CopyDone(i)
  \/ ProcessDirectoryDone(i)
  \/ PathExistsDone(i)
  \/ ReadJsonDone(i)
  \/ WriteJsonDone(i)
  \/ InstallDone(i)
  \/ BuildDone(i)

Next ==
  \/ CheckCsvPath
  \/ CheckTemplatePath
  \/ ParseCsvFile
  \/ CleanBuildDir
  \/ EnsureBuildDir
  \/ BuildWebsitesSequential
  \/ BuildWebsitesParallel
  \/ GenerateBuildSummary
  \/ \E i \in Rows : RowStep(i)

Spec == Init /\ [][Next]_vars

\* every awaited file operation and every spawned process eventually completes,
\* and the event loop eventually runs every continuation that is ready
Fairness ==
  /\ \A i \in 1..MaxRows : WF_vars(RowStep(i))
  /\ WF_vars(BuildWebsitesSequential \/ BuildWebsitesParallel)
  /\ WF_vars(CheckCsvPath \/ CheckTemplatePath \/ ParseCsvFile \/ CleanBuildDir
               \/ EnsureBuildDir \/ GenerateBuildSummary)

\* the runs over a row source that passes validation: k rows whose domains alternate
LiveLine(k) ==
  LineFor(FullHeader, IF k % 2 = 1 THEN <<"a">> ELSE <<"b", " ">>, <<"1">>, FALSE)

LiveInit ==
  /\ Init
  /\ csv.exists
  /\ csv.header = FullHeader
  /\ csv.lines = [k \in 1..Len(csv.lines) |-> LiveLine(k)]
  /\ Len(csv.lines) >= 1

FairSpec == LiveInit /\ [][Next]_vars /\ Fairness

\* -------------------------------------------------------- templateProcessor
\* A text is a sequence of characters.  The characters of \w that occur in
\* the texts below, and the characters that `.` does not match
WordChars == {"a", "b", "k", "z", "A", "v", "l", "u", "e", "O", "f"}
LineTerminators == {"\n", "\r"}

RECURSIVE Concat(_)
Concat(ss) == IF ss = <<>> THEN <<>> ELSE Head(ss) \o Concat(Tail(ss))

\* str.replace(/c/g, r) for a single character c
ReplaceAll(str, c, r) == Concat([j \in 1..Len(str) |-> IF str[j] = c THEN r ELSE <<str[j]>>])

\* str.replace(/'/g, "\\'").replace(/"/g, '\\"').replace(/\n/g, '\\n').replace(/\r/g, '\\r')
escapeForJS(str) ==
  ReplaceAll(ReplaceAll(ReplaceAll(ReplaceAll(str,
    "'", <<"\\", "'">>), "\"", <<"\\", "\"">>),
    "\n", <<"\\", "n">>), "\r", <<"\\", "r">>)

\* String.prototype.endsWith
EndsWith(str, suffix) ==
  Len(suffix) <= Len(str) /\ SubSeq(str, Len(str) - Len(suffix) + 1, Len(str)) = suffix

\* filePath.endsWith('.js') || filePath.endsWith('.jsx')
IsCodeLike(filePath) ==
  EndsWith(filePath, <<".", "j", "s">>) \/ EndsWith(filePath, <<".", "j", "s", "x">>)

\* the first position from p on whose character is not in the class
RECURSIVE SkipClass(_, _, _)
SkipClass(t, p, class) ==
  IF p <= Len(t) /\ t[p] \in class THEN SkipClass(t, p + 1, class) ELSE p

PairAt(t, p, c) == p + 1 <= Len(t) /\ t[p] = c /\ t[p + 1] = c

NoMatch == [ok |-> FALSE]

\* variant: the closing braces are optional
VariableAt_Unclosed(t, p) ==
  LET b == SkipClass(t, p + 2, WhiteSpace)
      c == SkipClass(t, b, WordChars)
      d == SkipClass(t, c, WhiteSpace)
  IN IF PairAt(t, p, "{") /\ c > b
     THEN [ok |-> TRUE, key |-> SubSeq(t, b, c - 1),
           end |-> IF PairAt(t, d, "}") THEN d + 2 ELSE d]
     ELSE NoMatch

\* a match of /\{\{\s*(\w+)\s*\}\}/ that starts at position p: the three
\* classes are disjoint, so the greedy match is the only one
VariableAt(t, p) ==
  LET b == SkipClass(t, p + 2, WhiteSpace)
      c == SkipClass(t, b, WordChars)
      d == SkipClass(t, c, WhiteSpace)
  IN IF PairAt(t, p, "{") /\ c > b /\ PairAt(t, d, "}")
     THEN [ok |-> TRUE, key |-> SubSeq(t, b, c - 1), end |-> d + 2]
     ELSE NoMatch

\* a property every object inherits from Object.prototype, and String() of it
ValueOfKey == <<"v", "a", "l", "u", "e", "O", "f">>
ObjectPrototype == [key \in {ValueOfKey} |-> <<"function valueOf() { [native code] }">>]

\* data[key] on the row object
Lookup(data, key) ==
  IF key \in DOMAIN data THEN data[key]
  ELSE IF key \in DOMAIN ObjectPrototype THEN ObjectPrototype[key]
  ELSE Undefined

\* the replacer of the variable pass
Replacement(data, key, match, filePath) ==
  LET value == Lookup(data, key)
  IN IF value # Undefined
     THEN IF IsCodeLike(filePath) THEN escapeForJS(value) ELSE value
     ELSE match

\* content.replace(/\{\{\s*(\w+)\s*\}\}/g, replacer), from position p on
RECURSIVE ReplaceVariables(_, _, _, _)
ReplaceVariables(t, p, data, filePath) ==
  IF p > Len(t) THEN <<>>
  ELSE LET m == VariableAt(t, p)
       IN IF m.ok
          THEN Replacement(data, m.key, SubSeq(t, p, m.end - 1), filePath)
               \o ReplaceVariables(t, m.end, data, filePath)
          ELSE <<t[p]>> \o ReplaceVariables(t, p + 1, data, filePath)

\* variant: the span may run over line breaks
RECURSIVE CloseFrom_AcrossLines(_, _)
CloseFrom_AcrossLines(t, q) ==
  IF q + 1 > Len(t) THEN 0
  ELSE IF PairAt(t, q, "]") THEN q
  ELSE CloseFrom_AcrossLines(t, q + 1)

\* the position of the first `]]` from q on that is reached over characters
\* `.` matches, or 0 when a line terminator or the end of the text comes first
RECURSIVE CloseFrom(_, _)
CloseFrom(t, q) ==
  IF q + 1 > Len(t) THEN 0
  ELSE IF PairAt(t, q, "]") THEN q
  ELSE IF t[q] \in LineTerminators THEN 0
  ELSE CloseFrom(t, q + 1)

\* a match of /\[\[(.*?)\]\]/ that starts at position p
SpanAt(t, p) ==
  LET q == IF PairAt(t, p, "[") THEN CloseFrom(t, p + 2) ELSE 0
  IN IF q # 0
     THEN [ok |-> TRUE, options |-> SubSeq(t, p + 2, q - 1), end |-> q + 2]
     ELSE NoMatch

\* options.split('|')
RECURSIVE Split(_)
Split(str) ==
  IF \E j \in 1..Len(str) : str[j] = "|"
  THEN LET j == CHOOSE j \in 1..Len(str) : str[j] = "|" /\ \A h \in 1..(j - 1) : str[h] # "|"
       IN <<SubSeq(str, 1, j - 1)>> \o Split(SubSeq(str, j + 1, Len(str)))
  ELSE <<str>>

\* variant: the empty alternatives are kept
Choices_KeepEmpty(options) ==
  [j \in 1..Len(Split(options)) |-> Trim(Split(options)[j])]

\* options.split('|').map(s => s.trim()).filter(s => s.length > 0)
Choices(options) ==
  SelectSeq([j \in 1..Len(Split(options)) |-> Trim(Split(options)[j])],
            LAMBDA c : Len(c) > 0)

\* Math.random() returns x / RandomSteps for some x in 0 .. RandomSteps - 1
RandomSteps == 3
RandomValues == 0..(RandomSteps - 1)

\* variant: the first alternative is always taken
Pick_First(choices, x) == choices[1]

\* choices[Math.floor(Math.random() * choices.length)]
Pick(choices, x) == choices[((x * Len(choices)) \div RandomSteps) + 1]

\* content.replace(/\[\[(.*?)\]\]/g, replacer), from position p on; rnd holds
\* the values the calls of Math.random() return, in order
RECURSIVE ReplaceSpans(_, _, _)
ReplaceSpans(t, p, rnd) ==
  IF p > Len(t) THEN <<>>
  ELSE LET m == SpanAt(t, p)
       IN IF m.ok
          THEN IF Choices(m.options) = <<>>
               THEN SubSeq(t, p, m.end - 1) \o ReplaceSpans(t, m.end, rnd)
               ELSE Pick(Choices(m.options), Head(rnd)) \o ReplaceSpans(t, m.end, Tail(rnd))
          ELSE <<t[p]>> \o ReplaceSpans(t, p + 1, rnd)

\* the number of calls of Math.random() of the second pass over t, from p on
RECURSIVE RandomDraws(_, _)
RandomDraws(t, p) ==
  IF p > Len(t) THEN 0
  ELSE LET m == SpanAt(t, p)
       IN IF m.ok
          THEN (IF Choices(m.options) = <<>> THEN 0 ELSE 1) + RandomDraws(t, m.end)
          ELSE RandomDraws(t, p + 1)

\* processTemplate(content, data, filePath): the variable pass, then the
\* random-selection pass over its result
processTemplate(content, data, filePath, rnd) ==
  ReplaceSpans(ReplaceVariables(content, 1, data, filePath), 1, rnd)

\* the template texts: up to MaxSegments segments, each a piece of template
\* syntax, a complete token or span, or plain text
OpenVar == <<"{", "{">>
CloseVar == <<"}", "}">>
OpenSpan == <<"[", "[">>
CloseSpan == <<"]", "]">>

Segments ==
  {OpenVar, CloseVar, OpenSpan, CloseSpan, <<"|">>, <<" ">>, <<"k">>, <<"z">>, <<"!">>,
   OpenVar \o <<"k">> \o CloseVar,
   OpenVar \o <<" ", "k", " ">> \o CloseVar,
   OpenVar \o <<"z">> \o CloseVar,
   OpenVar \o ValueOfKey \o CloseVar,
   OpenSpan \o <<"a", "|", "b">> \o CloseSpan,
   OpenSpan \o <<" ", "a", " ", "|", "b", " ">> \o CloseSpan,
   OpenSpan \o <<" ", "|", " ">> \o CloseSpan,
   OpenSpan \o <<"a", "\n", "|", "b">> \o CloseSpan}

Texts == {Concat(ss) : ss \in SeqsUpTo(Segments, MaxSegments)}

\* the row record handed to processTemplate has the field k
FieldKey == <<"k">>
Row(value) == [key \in {FieldKey} |-> value]

Values ==
  {<<"A">>,
   OpenSpan \o <<"a", "|", "b">> \o CloseSpan,
   <<"\\", "'">>,
   <<"\"", "\n">>,
   OpenVar \o <<"k">> \o CloseVar}

FilePaths == {<<"a", ".", "j", "s">>, <<"a", ".", "h", "t", "m", "l">>}

\* no run of the generator is in progress
NoRun ==
  /\ entry = "none"
  /\ csv = [exists |-> FALSE, header |-> <<>>, lines |-> <<>>]
  /\ templateExists = FALSE
  /\ hasManifest = FALSE
  /\ maxConcurrent = 1
  /\ gpc = "idle"
  /\ exitStatus = -1
  /\ genError = NoError
  /\ websites = <<>>
  /\ root = "absent"
  /\ rootOps = <<>>
  /\ dirOwner = InitDirs("absent")
  /\ pc = <<>>
  /\ log = <<>>
  /\ outcome = <<>>
  /\ ret = <<>>
  /\ exits = <<>>
  /\ cur = 0
  /\ results = <<>>
  /\ summary = None

TemplateInit ==
  /\ NoRun
  /\ tree = Idle
  /\ walk = Idle
  /\ pkg = Idle
  /\ par = Idle
  /\ child = Idle
  /\ tpl \in [phase : {"call"}, content : Texts, value : Values, filePath : FilePaths]

\* what the calls of Math.random() during one call of processTemplate may return
RandomSequences(content, data, filePath) ==
  [1..RandomDraws(ReplaceVariables(content, 1, data, filePath), 1) -> RandomValues]

\* the results that a call of processTemplate may return
PossibleResults(content, data, filePath) ==
  {processTemplate(content, data, filePath, rnd) :
     rnd \in RandomSequences(content, data, filePath)}

\* a call of processTemplate(content, data, filePath) returns
ProcessTemplateCall ==
  /\ tpl.phase = "call"
  /\ \E rnd \in RandomSequences(tpl.content, Row(tpl.value), tpl.filePath) :
       tpl' = [phase |-> "returned", content |-> tpl.content, value |-> tpl.value,
               filePath |-> tpl.filePath, rnd |-> rnd,
               out |-> processTemplate(tpl.content, Row(tpl.value), tpl.filePath, rnd)]
  /\ UNCHANGED <<entry, csv, templateExists, hasManifest, maxConcurrent, tree, walk, pkg,
                 par, child,
                 runVars, root, rowVars>>

TemplateNext == ProcessTemplateCall

TemplateSpec == TemplateInit /\ [][TemplateNext]_vars

\* ------------------------------------------------------- copy of the template
\* A name is a sequence of characters, a path is a sequence of names and a
\* tree is the set of the paths of its entries, relative to its root.
NodeModules == <<"n", "o", "d", "e", "_", "m", "o", "d", "u", "l", "e", "s">>
Build == <<"b", "u", "i", "l", "d">>
Dist == <<"d", "i", "s", "t">>
DotGit == <<".", "g", "i", "t">>

\* getAllFiles: ['node_modules', 'build', 'dist', '.git'].includes(item.name)
SkippedNames == {NodeModules, Build, Dist, DotGit}

DirNames == SkippedNames \cup {<<"s", "r", "c">>}
FileNames == {<<"a", ".", "j", "s">>, <<".", "g", "i", "t", "i", "g", "n", "o", "r", "e">>}

\* the paths of up to MaxDepth names: directories, the last name may be a file
Paths ==
  UNION {{dirs \o <<last>> : dirs \in [1..(d - 1) -> DirNames],
                             last \in DirNames \cup FileNames} : d \in 1..MaxDepth}

\* the tree that consists of the given entries and their parent directories
TreeOf(entries) == UNION {{SubSeq(q, 1, k) : k \in 1..Len(q)} : q \in entries}

TemplateTrees == {TreeOf({q, r}) : q, r \in Paths}

\* path.relative(templatePath, src) as a string: the names joined by the separator
RECURSIVE RelativePath(_)
RelativePath(q) ==
  IF Len(q) = 0 THEN <<>>
  ELSE IF Len(q) = 1 THEN q[1]
  ELSE q[1] \o <<"/">> \o RelativePath(Tail(q))

\* String.prototype.startsWith
StartsWith(str, prefix) ==
  Len(prefix) <= Len(str) /\ SubSeq(str, 1, Len(prefix)) = prefix

\* the filter handed to fs.copy
CopyFilter(q) ==
  /\ ~StartsWith(RelativePath(q), NodeModules)
  /\ ~StartsWith(RelativePath(q), Build)
  /\ ~StartsWith(RelativePath(q), DotGit)

\* fs.copy(templatePath, websitePath, {filter}): an entry is copied when the
\* filter accepts it and every directory above it
CopyTree(template) ==
  {q \in template : \A k \in 1..Len(q) : CopyFilter(SubSeq(q, 1, k))}

TreeInit ==
  /\ NoRun
  /\ tpl = Idle
  /\ walk = Idle
  /\ pkg = Idle
  /\ par = Idle
  /\ child = Idle
  /\ tree \in [phase : {"call"}, template : TemplateTrees]

\* await fs.copy(templatePath, websitePath, {filter}) resolves
CopyTemplate ==
  /\ tree.phase = "call"
  /\ tree' = [phase |-> "copied", template |-> tree.template,
              website |-> CopyTree(tree.template)]
  /\ UNCHANGED <<entry, csv, templateExists, hasManifest, maxConcurrent, tpl, walk, pkg,
                 par, child,
                 runVars, root, rowVars>>

TreeNext == CopyTemplate

TreeSpec == TreeInit /\ [][TreeNext]_vars

\* -------------------------------------------------------- processDirectory
\* ['.js', '.jsx', '.ts', '.tsx', '.html', '.json']
DefaultExtensions ==
  {<<".", "j", "s">>, <<".", "j", "s", "x">>, <<".", "t", "s">>, <<".", "t", "s", "x">>,
   <<".", "h", "t", "m", "l">>, <<".", "j", "s", "o", "n">>}

\* path.extname(name): the name from its last dot on, empty when it has no
\* dot or only a leading one
ExtName(name) ==
  LET dots == {j \in 1..Len(name) : name[j] = "."}
      last == IF dots = {} THEN 0 ELSE CHOOSE j \in dots : \A h \in dots : h <= j
  IN IF last <= 1 THEN <<>> ELSE SubSeq(name, last, Len(name))

\* the files of the website directory: one per extension of the list and a stylesheet
ProjectFileNames == {<<"a">> \o ext : ext \in DefaultExtensions \cup {<<".", "c", "s", "s">>}}

\* a file under up to MaxDepth directories
ProjectFiles ==
  UNION {{dirs \o <<name>> : dirs \in [1..d -> DirNames], name \in ProjectFileNames} :
           d \in 0..MaxDepth}

\* a script at the top and a page in src
NearFiles == {<<<<"a", ".", "j", "s">>>>, <<<<"s", "r", "c">>, <<"a", ".", "h", "t", "m", "l">>>>}

\* the website directories: a file anywhere, one or both of the near files,
\* and the directories they lie in
ProjectTrees ==
  {TreeOf({q} \cup rs) : q \in ProjectFiles, rs \in (SUBSET NearFiles) \ {{}}}

\* item.isDirectory() / item.isFile() of the entry at path q
IsDirectory(q) == q[Len(q)] \in DirNames
IsFile(q) == q[Len(q)] \in ProjectFileNames

FilesOf(t) == {q \in t : IsFile(q)}

\* every file of the template holds the token of the field k
FileText == OpenVar \o <<"k">> \o CloseVar
InitialDisk(t) == [q \in FilesOf(t) |-> FileText]

\* the orders in which fs.readdir may list the entries of a directory
AllNames ==
  <<<<"a", ".", "c", "s", "s">>, <<"a", ".", "h", "t", "m", "l">>, <<"a", ".", "j", "s">>,
    <<"a", ".", "j", "s", "o", "n">>, <<"a", ".", "j", "s", "x">>, <<"a", ".", "t", "s">>,
    <<"a", ".", "t", "s", "x">>, <<"s", "r", "c">>, Build, Dist, DotGit, NodeModules>>

Reverse(s) == [j \in 1..Len(s) |-> s[Len(s) + 1 - j]]

ReaddirOrders == {AllNames, Reverse(AllNames)}

\* variant: only the directories directly under dirPath are skipped
Pruned_TopLevelOnly(currentPath, name) == currentPath = <<>> /\ name \in SkippedNames

\* ['node_modules', 'build', 'dist', '.git'].includes(item.name)
Pruned(currentPath, name) == name \in SkippedNames

\* traverseDirectory(currentPath): the files pushed, in order; currentPath is
\* relative to dirPath and order is the order of readdir
RECURSIVE traverseDirectory(_, _, _, _)
traverseDirectory(t, currentPath, extensions, order) ==
  Concat([j \in 1..Len(order) |->
            LET fullPath == currentPath \o <<order[j]>>
            IN IF fullPath \notin t THEN <<>>
               ELSE IF IsDirectory(fullPath)
                    THEN IF ~Pruned(currentPath, order[j])
                         THEN traverseDirectory(t, fullPath, extensions, order)
                         ELSE <<>>
               ELSE IF IsFile(fullPath) /\ ExtName(order[j]) \in extensions
                    THEN <<fullPath>>
               ELSE <<>>])

getAllFiles(t, extensions, order) == traverseDirectory(t, <<>>, extensions, order)

\* what a call of an async function without a return statement resolves with
ResolvedUndefined == [type |-> "undefined"]

\* processDirectory after an await that was fulfilled: the next turn of the
\* loop over files, or the end of the function, which returns no value
Continue(w) ==
  IF w.next > Len(w.files)
  THEN [w EXCEPT !.phase = "returned", !.result = ResolvedUndefined]
  ELSE [w EXCEPT !.phase = "files"]

\* variant: the error of a file is swallowed and the loop goes on
Rethrown_Swallowed(w, op, file) == Continue([w EXCEPT !.next = @ + 1])

\* catch (error) { ...; throw error } in processFile and in processDirectory
Rethrown(w, op, file) == [w EXCEPT !.phase = "threw", !.error = [op |-> op, file |-> file]]

DirectoryInit ==
  /\ NoRun
  /\ tpl = Idle
  /\ tree = Idle
  /\ pkg = Idle
  /\ par = Idle
  /\ child = Idle
  /\ \E t \in ProjectTrees, v \in {<<"A", "'">>}, order \in ReaddirOrders :
       walk = [phase |-> "call", tree |-> t, value |-> v, order |-> order,
               disk |-> InitialDisk(t), files |-> <<>>, next |-> 1,
               reads |-> <<>>, writes |-> <<>>, error |-> None, result |-> None]

otherVars == <<entry, csv, templateExists, hasManifest, maxConcurrent, runVars, root, rowVars>>

\* variant: every file is rewritten as soon as the traversal finds it, so
\* the files found before the failing directory are rewritten already
EnumerationFails_RewriteAsFound(w) ==
  LET found == getAllFiles(w.tree, DefaultExtensions, w.order)
      done == SubSeq(found, 1, Len(found) - 1)
      Done == {done[j] : j \in 1..Len(done)}
  IN Rethrown([w EXCEPT !.reads = done, !.writes = done,
                        !.disk = [q \in DOMAIN @ |-> IF q \in Done THEN w.value ELSE @[q]]],
              "readdir", <<>>)

\* fs.readdir rejects in traverseDirectory: getAllFiles rejects before it
\* returns its list; the traversal has read directories and pushed paths
EnumerationFails(w) == Rethrown(w, "readdir", <<>>)

\* const files = await getAllFiles(dirPath, extensions)
GetAllFiles ==
  /\ walk.phase = "call"
  /\ \E ok \in BOOLEAN :
       walk' = IF ok
               THEN Continue([walk EXCEPT
                                !.files = getAllFiles(walk.tree, DefaultExtensions, walk.order)])
               ELSE EnumerationFails(walk)
  /\ UNCHANGED <<otherVars, par, child, tpl, tree, pkg>>

\* await processFile(file, data) for the next file of the list: readFile,
\* processTemplate, writeFile; a write that fails may have emptied the file
ProcessFile ==
  /\ walk.phase = "files"
  /\ LET file == walk.files[walk.next]
         content == walk.disk[file]
         reading == [walk EXCEPT !.reads = Append(@, file)]
         writing == [reading EXCEPT !.writes = Append(@, file)]
     IN \/ walk' = Rethrown(reading, "readFile", file)
        \/ \E left \in {content, <<>>} :
             walk' = Rethrown([writing EXCEPT !.disk[file] = left], "writeFile", file)
        \/ \E processedContent \in
                PossibleResults(content, Row(walk.value), RelativePath(file)) :
             walk' = Continue([writing EXCEPT !.disk[file] = processedContent,
                                              !.next = @ + 1])
  /\ UNCHANGED <<otherVars, par, child, tpl, tree, pkg>>

DirectoryNext == GetAllFiles \/ ProcessFile

DirectorySpec == DirectoryInit /\ [][DirectoryNext]_vars

\* ------------------------------------------------------- package.json of a row
UpperCase == <<"A", "B", "C", "D", "E", "F", "G", "H", "I", "J", "K", "L", "M",
               "N", "O", "P", "Q", "R", "S", "T", "U", "V", "W", "X", "Y", "Z">>
LowerCase == <<"a", "b", "c", "d", "e", "f", "g", "h", "i", "j", "k", "l", "m",
               "n", "o", "p", "q", "r", "s", "t", "u", "v", "w", "x", "y", "z">>

\* String.prototype.toLowerCase
toLowerCase(str) ==
  [j \in 1..Len(str) |->
     IF \E u \in 1..Len(UpperCase) : UpperCase[u] = str[j]
     THEN LowerCase[CHOOSE u \in 1..Len(UpperCase) : UpperCase[u] = str[j]]
     ELSE str[j]]

\* packageJson.name = domain.replace(/\./g, '-').toLowerCase()
PackageName(domain) == toLowerCase(ReplaceAll(domain, ".", <<"-">>))

\* packageJson.homepage = `https://${domain}`
Homepage(domain) == <<"h", "t", "t", "p", "s", ":", "/", "/">> \o domain

\* the domain values of a row: non-empty, without blanks at the ends
DomainChars == {"a", "B", "1", ".", "-", "_", "/"}
DomainValues == UNION {[1..n -> DomainChars] : n \in 1..MaxDomainLen}

\* path.join(websitePath, 'package.json'), relative to the website directory
PackageJsonPath == <<"p", "a", "c", "k", "a", "g", "e", ".", "j", "s", "o", "n">>

\* The package.json of the template is an object of string members; a member
\* is given by the text between the quotes of its value, as it stands in the file.
TemplateManifests ==
  UNION {[keys -> {<<"x">>, FileText}] :
           keys \in {{"name", "description"}, {"name", "description", "homepage"}}}

\* the file is JSON as long as no member text holds a character that a JSON
\* string cannot hold unescaped
ParsesAsJson(file) ==
  \A key \in DOMAIN file :
    \A j \in 1..Len(file[key]) : file[key][j] \notin {"\"", "\\", "\n", "\r"}

\* packageJson.name = ...; packageJson.homepage = ...
Finalized(packageJson, domain) ==
  [key \in DOMAIN packageJson \cup {"name", "homepage"} |->
     IF key = "name" THEN PackageName(domain)
     ELSE IF key = "homepage" THEN Homepage(domain)
     ELSE packageJson[key]]

\* what processFile may write for package.json: processTemplate over the
\* text of the file, which rewrites the member texts and nothing else
Substituted(file, value) ==
  LET written == [key \in DOMAIN file |->
                    PossibleResults(file[key], Row(value), PackageJsonPath)]
  IN {f \in [DOMAIN file -> UNION {written[key] : key \in DOMAIN file}] :
        \A key \in DOMAIN file : f[key] \in written[key]}

ManifestInit ==
  /\ NoRun
  /\ tpl = Idle
  /\ tree = Idle
  /\ walk = Idle
  /\ par = Idle
  /\ child = Idle
  /\ \E d \in DomainValues, v \in {<<"A">>, <<"\"">>}, m \in TemplateManifests :
       pkg = [pc |-> NextOp("copy", FALSE), domain |-> d, value |-> v, template |-> m,
              file |-> m, packageJson |-> None]

\* the awaited operation op of the row completes
ManifestStep(p, op, ok) == [p EXCEPT !.pc = AfterStep(op, ok, TRUE)]

\* await processDirectory(websitePath, data): package.json is one of the
\* files it rewrites, without escaping
ManifestProcessed ==
  /\ pkg # Idle
  /\ pkg.pc = "processDirectory"
  /\ \/ pkg' = ManifestStep(pkg, "processDirectory", FALSE)
     \/ \E file \in Substituted(pkg.file, pkg.value) :
          pkg' = ManifestStep([pkg EXCEPT !.file = file], "processDirectory", TRUE)
  /\ UNCHANGED <<otherVars, par, child, tpl, tree, walk>>

\* if (await fs.pathExists(packageJsonPath))
ManifestExists ==
  /\ pkg # Idle
  /\ pkg.pc = "pathExists"
  /\ pkg' = ManifestStep(pkg, "pathExists", TRUE)
  /\ UNCHANGED <<otherVars, par, child, tpl, tree, walk>>

\* const packageJson = await fs.readJson(packageJsonPath), then the two assignments
ManifestRead ==
  /\ pkg # Idle
  /\ pkg.pc = "readJson"
  /\ \/ pkg' = ManifestStep(pkg, "readJson", FALSE)
     \/ /\ ParsesAsJson(pkg.file)
        /\ pkg' = ManifestStep([pkg EXCEPT !.packageJson = Finalized(pkg.file, pkg.domain)],
                               "readJson", TRUE)
  /\ UNCHANGED <<otherVars, par, child, tpl, tree, walk>>

\* await fs.writeJson(packageJsonPath, packageJson, { spaces: 2 })
ManifestWritten ==
  /\ pkg # Idle
  /\ pkg.pc = "writeJson"
  /\ \/ pkg' = ManifestStep(pkg, "writeJson", FALSE)
     \/ pkg' = ManifestStep([pkg EXCEPT !.file = pkg.packageJson], "writeJson", TRUE)
  /\ UNCHANGED <<otherVars, par, child, tpl, tree, walk>>

ManifestNext == ManifestProcessed \/ ManifestExists \/ ManifestRead \/ ManifestWritten

ManifestSpec == ManifestInit /\ [][ManifestNext]_vars

\* ------------------------------- buildWebsitesParallel with any group size
\* a JavaScript number: an integer or NaN
Num(v) == [nan |-> FALSE, v |-> v]
NaN == [nan |-> TRUE, v |-> 0]

\* x + y
Plus(x, y) == IF x.nan \/ y.nan THEN NaN ELSE Num(x.v + y.v)

\* x < y, false when an operand is NaN
LessThan(x, y) == ~x.nan /\ ~y.nan /\ x.v < y.v

\* ToIntegerOrInfinity(x)
ToInteger(x) == IF x.nan THEN 0 ELSE x.v

\* a relative index of slice: counted from the end when negative, clamped to 0 .. len
RelativeIndex(k, len) ==
  IF k < 0 THEN (IF len + k > 0 THEN len + k ELSE 0)
  ELSE IF k < len THEN k ELSE len

\* websites.slice(start, end) as the sequence of the row numbers it holds
ArraySlice(start, end, len) ==
  LET k == RelativeIndex(ToInteger(start), len)
      final == RelativeIndex(ToInteger(end), len)
  IN [j \in 1..(IF final > k THEN final - k ELSE 0) |-> k + j]

\* parseInt(process.env.PARALLEL_BUILDS || '3') is an integer or NaN
GroupSizes == {Num(v) : v \in (-1)..MaxConcurrent} \cup {NaN}

\* the turns of the chunk loop that are followed
MaxChunkTurns == MaxRows + 1

ChunkInit ==
  /\ NoRun
  /\ tpl = Idle
  /\ tree = Idle
  /\ walk = Idle
  /\ pkg = Idle
  /\ child = Idle
  /\ \E ws \in SeqsUpTo(AllDomains, MaxRows), m \in GroupSizes :
       par = [phase |-> "chunking", websites |-> ws, maxConcurrent |-> m, i |-> Num(0),
              chunks |-> <<>>, c |-> 0, results |-> <<>>]

\* for (let i = 0; i < websites.length; i += maxConcurrent): one turn
PushChunk ==
  /\ par.phase = "chunking"
  /\ LessThan(par.i, Num(Len(par.websites)))
  /\ Len(par.chunks) < MaxChunkTurns
  /\ par' = [par EXCEPT
               !.chunks = Append(@, ArraySlice(par.i, Plus(par.i, par.maxConcurrent),
                                               Len(par.websites))),
               !.i = Plus(@, par.maxConcurrent)]
  /\ UNCHANGED <<otherVars, tpl, tree, walk, pkg, child>>

\* for (const chunk of chunks): the next chunk is mapped to promises and
\* awaited, or, after the last chunk, the function returns results
AwaitNextChunk(p) ==
  IF p.c < Len(p.chunks)
  THEN [p EXCEPT !.phase = "awaiting", !.c = @ + 1]
  ELSE [p EXCEPT !.phase = "returned"]

\* the test i < websites.length fails: the chunk loop ends
ChunksComplete ==
  /\ par.phase = "chunking"
  /\ ~LessThan(par.i, Num(Len(par.websites)))
  /\ par' = AwaitNextChunk(par)
  /\ UNCHANGED <<otherVars, tpl, tree, walk, pkg, child>>

\* what Promise.all may resolve with for a chunk: a result of buildWebsite
\* for every row of the chunk, in the order of the chunk
ChunkResults(chunk, ws) ==
  LET All == {BuildSuccess(d) : d \in AllDomains} \cup {BuildFailure(d, "copy") : d \in AllDomains}
  IN {rs \in [1..Len(chunk) -> All] : \A k \in 1..Len(chunk) : rs[k].domain = ws[chunk[k]]}

\* const chunkResults = await Promise.all(promises); results.push(...chunkResults)
ChunkSettled ==
  /\ par.phase = "awaiting"
  /\ \E chunkResults \in ChunkResults(par.chunks[par.c], par.websites) :
       par' = AwaitNextChunk([par EXCEPT !.results = @ \o chunkResults])
  /\ UNCHANGED <<otherVars, tpl, tree, walk, pkg, child>>

ChunkNext == PushChunk \/ ChunksComplete \/ ChunkSettled

ChunkSpec == ChunkInit /\ [][ChunkNext]_vars

\* -------------------------------------------------------------- runCommand
\* what the promise of runCommand is settled with: resolve({ stdout, stderr })
\* when the process closed with code 0, else reject with the error built
\* from the exit code or with the error of the 'error' event
Decision(end, stdout, stderr) ==
  IF CommandResolves(end)
  THEN [ok |-> TRUE, stdout |-> stdout, stderr |-> stderr]
  ELSE IF end.event = "close"
       THEN [ok |-> FALSE, kind |-> "exit", code |-> end.code,
             text |-> IF stderr # <<>> THEN stderr ELSE stdout]
       ELSE [ok |-> FALSE, kind |-> "spawn", code |-> end.code, text |-> <<>>]

\* variant: every call of resolve or reject settles the promise anew
Settle_LastWins(c, decision) ==
  [c EXCEPT !.settled = decision, !.jobs = Append(@, decision)]

\* resolve(value) / reject(reason): the first call settles the promise and
\* queues the reaction of the awaiting caller, a later call does nothing
Settle(c, decision) ==
  IF c.settled = None
  THEN [c EXCEPT !.settled = decision, !.jobs = Append(@, decision)]
  ELSE c

CommandInit ==
  /\ NoRun
  /\ tpl = Idle
  /\ tree = Idle
  /\ walk = Idle
  /\ pkg = Idle
  /\ par = Idle
  /\ child = [phase |-> "spawned", stdout |-> <<>>, stderr |-> <<>>, delivered |-> <<>>,
              settled |-> None, jobs |-> <<>>, observed |-> <<>>]

Delivered(c, event) == \E k \in 1..Len(c.delivered) : c.delivered[k].event = event

\* child.stdout.on('data', data => { stdout += data.toString() }); the
\* streams have ended when 'close' is emitted
StdoutData ==
  /\ child.phase = "spawned"
  /\ ~Delivered(child, "close")
  /\ Len(child.stdout) < MaxDataEvents
  /\ child' = [child EXCEPT !.stdout = @ \o <<"o">>]
  /\ UNCHANGED <<otherVars, tpl, tree, walk, pkg, par>>

\* child.stderr.on('data', data => { stderr += data.toString() })
StderrData ==
  /\ child.phase = "spawned"
  /\ ~Delivered(child, "close")
  /\ Len(child.stderr) < MaxDataEvents
  /\ child' = [child EXCEPT !.stderr = @ \o <<"e">>]
  /\ UNCHANGED <<otherVars, tpl, tree, walk, pkg, par>>

\* the handler of a 'close' or an 'error' event of the child
Handle(c, end) ==
  Settle([c EXCEPT !.delivered = Append(@, end)], Decision(end, c.stdout, c.stderr))

\* child.on('close', code => ...), emitted once
OnClose ==
  /\ child.phase = "spawned"
  /\ ~Delivered(child, "close")
  /\ \E end \in {e \in ProcessEnds : e.event = "close"} : child' = Handle(child, end)
  /\ UNCHANGED <<otherVars, tpl, tree, walk, pkg, par>>

\* child.on('error', error => reject(error)), before or after 'close'
OnError ==
  /\ child.phase = "spawned"
  /\ ~Delivered(child, "error")
  /\ \E end \in {e \in ProcessEnds : e.event = "error"} : child' = Handle(child, end)
  /\ UNCHANGED <<otherVars, tpl, tree, walk, pkg, par>>

\* `await runCommand(...)` in installDependencies and buildReactApp resumes
\* with the outcome of a queued reaction
Resume ==
  /\ child.phase = "spawned"
  /\ child.jobs # <<>>
  /\ child' = [child EXCEPT !.observed = Append(@, Head(child.jobs)), !.jobs = Tail(@)]
  /\ UNCHANGED <<otherVars, tpl, tree, walk, pkg, par>>

CommandNext == StdoutData \/ StderrData \/ OnClose \/ OnError \/ Resume

CommandSpec == CommandInit /\ [][CommandNext]_vars

\* ------------------------------------------------------------------ claims
OpIndex == [op \in OperationSet |-> CHOOSE k \in 1..Len(Operations) : Operations[k] = op]

Pos(op) == OpIndex[op]

AllOk(o) == \A k \in 1..Len(o) : o[k] = "ok"

RunCollected ==
  gpc \in {"summary", "finished"} \/ (gpc = "exited" /\ genError.kind = "writeSummary")

\* the operations in pipeline order, with and without the finalizing of a manifest
WithoutManifest == SelectSeq(Operations, LAMBDA op : op \notin {"readJson", "writeJson"})

Prefixes(s) == {SubSeq(s, 1, k) : k \in 0..Len(s)}

PipelinePrefixes == Prefixes(Operations) \cup Prefixes(WithoutManifest)

\* C1: in every row the operations of buildWebsite start in pipeline order,
\* each only after all earlier ones completed successfully and none twice; the
\* first failing operation ends the row as failed with that operation's error
\* message, and a succeeded row has run the pipeline to its last operation.
C1_StepOrder ==
  \A i \in Rows :
    /\ log[i] \in PipelinePrefixes
    /\ Len(log[i]) - 1 <= Len(outcome[i]) /\ Len(outcome[i]) <= Len(log[i])
    /\ \A k \in 1..(Len(log[i]) - 1) : outcome[i][k] = "ok"
    /\ pc[i] = "pending" <=> log[i] = <<>>
    /\ pc[i] \in OperationSet =>
         log[i][Len(log[i])] = pc[i] /\ Len(outcome[i]) = Len(log[i]) - 1
    /\ pc[i] = "failed" =>
         /\ Len(outcome[i]) = Len(log[i])
         /\ outcome[i][Len(outcome[i])] = "fail"
         /\ ret[i] = [domain |-> Domain(i), success |-> FALSE,
                      error |-> ErrorMessage(log[i][Len(log[i])])]
    /\ pc[i] = "succeeded" =>
         /\ Len(outcome[i]) = Len(log[i])
         /\ AllOk(outcome[i])
         /\ log[i][Len(log[i])] = "buildReactApp"

C1_Witness ==
  \E i \in Rows :
    /\ pc[i] = "failed"
    /\ log[i][Len(log[i])] = "installDependencies"
    /\ "writeJson" \in {log[i][k] : k \in 1..Len(log[i])}

\* C2: a row's result depends only on the outcomes of its own operations, and
\* failed rows never stop the run: when the orchestrator has returned, every
\* row has been started and has reached succeeded or failed, in both modes.
C2_FailureIsolated ==
  /\ \A i \in Rows :
       ret[i] # None =>
         /\ pc[i] \in Terminal
         /\ ret[i].success <=> AllOk(outcome[i])
         /\ ret[i].success <=> pc[i] = "succeeded"
  /\ RunCollected => \A i \in Rows : pc[i] \in Terminal /\ log[i] # <<>>

C2_Witness ==
  /\ RunCollected
  /\ \E i, j \in Rows :
       /\ i < j
       /\ pc[i] = "failed"
       /\ log[i][Len(log[i])] \in {"installDependencies", "buildReactApp"}
       /\ pc[j] = "succeeded"

\* the batch of row i under group size m: rows 1..m, m+1..2m, ...
BatchOf(i, m) == ((i - 1) \div m) + 1

C4_SequentialOrder ==
  entry = "generate" =>
    /\ Cardinality({i \in Rows : InFlight(i)}) <= 1
    /\ \A i, j \in Rows : i < j /\ Started(j) => pc[i] \in Terminal

C4_Witness ==
  /\ entry = "generate"
  /\ Len(websites) >= 2
  /\ pc[1] \in Terminal
  /\ InFlight(2)

\* operations that remove, overwrite or write into the row's website directory
DirectoryOps == {"remove", "copy", "processDirectory", "writeJson",
                 "installDependencies", "buildReactApp"}

\* row j has copied the template into its website directory
Materialized(j) ==
  \E k \in 1..Len(outcome[j]) : log[j][k] = "copy" /\ outcome[j][k] = "ok"

\* C5: whenever a row completes an operation that removes, overwrites or
\* writes into its website directory, that directory is not the directory
\* that another row of the run has materialized.
C5_ExclusiveDirectory ==
  [][\A i \in Rows :
       (pc[i] \in DirectoryOps /\ pc'[i] # pc[i] /\ pc'[i] # "failed")
         => \A j \in Rows \ {i} :
              Materialized(j) => WebsitePath(Domain(j)) # WebsitePath(Domain(i))]_vars

C6_Results ==
  /\ Len(results) <= Len(websites)
  /\ \A k \in 1..Len(results) :
       /\ results[k] # None
       /\ results[k] = ret[k]
       /\ results[k].domain = Domain(k)
  /\ RunCollected => Len(results) = Len(websites)

\* C6: the results array holds, at position i, the one result of row i with
\* row i's domain; when the orchestrator has returned there are exactly as
\* many results as rows; a result and a settled return value never change.
C6_OneResultPerRow ==
  /\ []C6_Results
  /\ [][/\ \A k \in 1..Len(results) : k <= Len(results') /\ results'[k] = results[k]
        /\ \A i \in Rows : ret[i] # None => ret'[i] = ret[i]]_vars

C6_Witness ==
  /\ RunCollected
  /\ Len(results) >= 2
  /\ results[1].domain # results[2].domain
  /\ results[1].success # results[2].success

\* the columns of the CSV header that carry field f
ColumnsOf(f) == {c \in 1..Len(csv.header) : csv.header[c] = f}

\* data line i has no cell for field f, or a cell of blanks only
CellMissing(i, f) ==
  \A c \in ColumnsOf(f) :
    \/ c > Len(csv.lines[i])
    \/ \A k \in 1..Len(csv.lines[i][c]) : csv.lines[i][c][k] = " "

MissingPairs ==
  {p \in (1..Len(csv.lines)) \X RequiredSet : CellMissing(p[1], p[2])}

RaggedRows == {i \in 1..Len(csv.lines) : Len(csv.lines[i]) # Len(csv.header)}

ParseCalled ==
  /\ entry = "generate"
  /\ gpc \notin {"checkCsv", "checkTemplate", "parse"}
  /\ genError.kind \notin {"csvNotFound", "templateNotFound"}

NothingMaterialized ==
  /\ websites = <<>>
  /\ rootOps = <<>>
  /\ dirOwner = InitDirs(root)
  /\ results = <<>>
  /\ summary = None

EntrySet == {genError.entries[k] : k \in 1..Len(genError.entries)}

\* C7 as stated: with a missing or blank required field the error of parseCSV
\* names the row and the field of every such cell, and nothing is materialized.
C7_Original ==
  ParseCalled /\ MissingPairs # {} =>
    /\ gpc = "exited"
    /\ NothingMaterialized
    /\ \A p \in MissingPairs :
         \E e \in EntrySet :
           /\ "field" \in DOMAIN e
           /\ e.field = p[2]
           /\ e.row \in {p[1] - 1, p[1], p[1] + 1}

\* C7 amended: with a missing or blank required field generate() exits with
\* status 1 and nothing is materialized; when every line has as many cells
\* as the header the error lists exactly the missing cells, each by line
\* number (zero-based index + 2) and field name; when some line has another
\* number of cells the error is a parsing error listing the zero-based
\* indices of those lines and no field name.
C7_ValidationBeforeMaterialization ==
  ParseCalled /\ MissingPairs # {} =>
    /\ gpc = "exited"
    /\ exitStatus = 1
    /\ NothingMaterialized
    /\ IF RaggedRows = {}
       THEN /\ genError.kind = "validation"
            /\ EntrySet = {[row |-> p[1] + 1, field |-> p[2]] : p \in MissingPairs}
       ELSE /\ genError.kind = "parsing"
            /\ {e.row : e \in EntrySet} = {i - 1 : i \in RaggedRows}
            /\ \A e \in EntrySet : "field" \notin DOMAIN e

C7_Witness ==
  /\ gpc = "exited"
  /\ genError.kind = "validation"
  /\ [row |-> 3, field |-> "phone"] \in EntrySet
  /\ \E i \in 1..Len(csv.lines) : csv.lines[i][4] = <<" ">>

PreRowKinds == {"csvNotFound", "templateNotFound", "notFound", "empty", "parsing",
                "noData", "validation", "remove", "ensureDir"}

\* C8 as stated: generate() exits with status 1 only when no row was started.
C8_Original ==
  entry = "generate" /\ exitStatus = 1 => \A i \in Rows : ~Started(i)

\* C8 amended: generate() exits with status 1 only when no row was started
\* (missing path, parse or validation failure, output root not cleaned or
\* created) or when writing the summary failed after all rows ended; when the
\* summary has been written the run ends with status 0 whatever the rows did.
C8_ExitStatus ==
  entry = "generate" =>
    /\ exitStatus = 1 =>
         \/ genError.kind \in PreRowKinds /\ \A i \in Rows : ~Started(i)
         \/ genError.kind = "writeSummary" /\ \A i \in Rows : pc[i] \in Terminal
    /\ gpc = "finished" => exitStatus = 0 /\ summary # None
    /\ (\E i \in Rows : Started(i)) /\ genError.kind # "writeSummary" => exitStatus # 1

C8_Witness ==
  /\ entry = "generate"
  /\ gpc = "finished"
  /\ exitStatus = 0
  /\ Len(websites) >= 2
  /\ \A i \in Rows : pc[i] = "failed"

LinesOf(k, section) ==
  {j \in 1..Len(summary.lines) :
     summary.lines[j].result = k /\ summary.lines[j].section = section}

SummaryCounts ==
  /\ summary.total = Len(results)
  /\ summary.total = Len(websites)
  /\ summary.total = summary.successful + summary.failed
  /\ summary.successful = Cardinality({k \in 1..Len(results) : results[k].success})
  /\ summary.generatedOn \in Times

\* C9 as stated: the summary counts add up to the number of rows, carries a
\* timestamp and lists every row exactly once.
C9_Original ==
  summary # None =>
    /\ SummaryCounts
    /\ \A k \in 1..Len(results) :
         Cardinality({j \in 1..Len(summary.lines) : summary.lines[j].result = k}) = 1

\* C9 amended: the summary counts add up to the number of rows and it carries
\* a timestamp; a failed row is listed exactly once, under Failed Builds with
\* its error text; a succeeded row is listed exactly twice, once under
\* Successful Builds with its relative output location and once under Quick
\* Links with its materialized path.
C9_SummaryLists ==
  summary # None =>
    /\ SummaryCounts
    /\ \A j \in 1..Len(summary.lines) :
         /\ summary.lines[j].result \in 1..Len(results)
         /\ summary.lines[j].domain = results[summary.lines[j].result].domain
    /\ \A k \in 1..Len(results) :
         IF results[k].success
         THEN /\ Cardinality(LinesOf(k, "Successful Builds")) = 1
              /\ Cardinality(LinesOf(k, "Quick Links")) = 1
              /\ LinesOf(k, "Failed Builds") = {}
              /\ \A j \in LinesOf(k, "Quick Links") :
                   summary.lines[j].text = <<"file://", results[k].path, "build", "index.html">>
         ELSE /\ Cardinality(LinesOf(k, "Failed Builds")) = 1
              /\ LinesOf(k, "Successful Builds") = {}
              /\ LinesOf(k, "Quick Links") = {}
              /\ \A j \in LinesOf(k, "Failed Builds") :
                   summary.lines[j].text = results[k].error

C9_Witness ==
  /\ summary # None
  /\ summary.failed >= 1
  /\ summary.successful >= 1

\* C10: under generate() with PARALLEL_BUILDS >= 2 and at least two rows the
\* first group of rows is started together, so when the pipeline of row 1 is
\* in flight row 2 has been started as well.
C10_GenerateBuildsInParallel ==
  entry = "generate" /\ maxConcurrent >= 2 /\ Len(websites) >= 2 /\ InFlight(1)
    => Started(2)

\* the commands row i spawned, in order
Commands(i) == [k \in 1..Len(exits[i]) |-> exits[i][k].cmd]

ExitedZero(e) == e.end.event = "close" /\ e.end.code = 0

\* the outcome the row recorded for the operation op it has completed
OutcomeOf(i, op) == outcome[i][CHOOSE k \in 1..Len(log[i]) : log[i][k] = op]

C11_Exits ==
  \A i \in Rows :
    /\ Commands(i) \in {<<>>, <<"installDependencies">>,
                        <<"installDependencies", "buildReactApp">>}
    /\ \A k \in 1..Len(exits[i]) :
         /\ OutcomeOf(i, exits[i][k].cmd) = (IF ExitedZero(exits[i][k]) THEN "ok" ELSE "fail")
         /\ ~ExitedZero(exits[i][k]) =>
              /\ k = Len(exits[i])
              /\ pc[i] = "failed"
              /\ ret[i] = BuildFailure(Domain(i), exits[i][k].cmd)
    /\ (Len(exits[i]) >= 1 /\ ~ExitedZero(exits[i][1])) =>
         "buildReactApp" \notin {log[i][k] : k \in 1..Len(log[i])}
    /\ pc[i] = "succeeded" => Len(exits[i]) = 2

\* the step in which a command of row i fails removes nothing from the disk
C11_FilesStay ==
  \A i \in Rows :
    (pc[i] \in {"installDependencies", "buildReactApp"} /\ pc'[i] = "failed")
      => dirOwner' = dirOwner /\ root' = root

\* C11: installDependencies and buildReactApp each resolve exactly when the
\* spawned process exits with code zero and reject on every other exit code
\* and on a spawn error; a rejected command fails the row at once with that
\* command's error, a row whose install failed never spawns the build, no
\* command is spawned twice, and the failing step leaves the row's files on disk.
C11_InstallAndBuildExit == []C11_Exits /\ [][C11_FilesStay]_vars

C11_Witness ==
  \E i \in Rows :
    /\ Len(exits[i]) = 1
    /\ exits[i][1].end = [event |-> "close", code |-> 1]
    /\ pc[i] = "failed"
    /\ dirOwner[Domain(i)] = i

RunEnded == gpc \in {"finished", "exited"}

AllTerminal == \A i \in Rows : pc[i] \in Terminal

\* C12 as stated: a run over rows that passed validation ends with every row
\* terminal and with the summary written.
C12_Original ==
  (RunEnded /\ websites # <<>>) => (AllTerminal /\ summary # None)

\* the orchestrator has been handed the rows and has started the first one
RowsHandedOver == cur > 0

C12_Settled ==
  /\ \A i \in Rows : Started(i) => pc[i] \in Terminal
  /\ RunEnded
  /\ RowsHandedOver =>
       AllTerminal /\ (summary # None \/ genError.kind = "writeSummary")

\* C12 amended: when every awaited operation eventually completes, a started
\* row always reaches succeeded or failed and stays there, and every run whose
\* rows have been handed to the orchestrator eventually has all rows terminal
\* and has called generateBuildSummary; the summary is then written unless
\* that write fails.
C12_PipelinesTerminate == <>[]C12_Settled

C12_Witness ==
  /\ entry = "parallel"
  /\ gpc = "finished"
  /\ AllTerminal
  /\ summary = None
  /\ genError.kind = "writeSummary"

Returned == tpl.phase = "returned"

\* text that belongs to no token and no span
Plain == {<<" ">>, <<"!">>, <<"k">>, <<"z">>, <<"|">>}

\* the tokens of the field k
KTokens == {OpenVar \o <<"k">> \o CloseVar, OpenVar \o <<" ", "k", " ">> \o CloseVar}

\* for every text made of the segments of S, one way to cut it into them
Cut(S) ==
  LET D == SeqsUpTo(S, MaxSegments)
  IN [t \in {Concat(ss) : ss \in D} |-> CHOOSE ss \in D : Concat(ss) = t]

CutVariables == Cut(Plain \cup KTokens)

\* what the claim has inserted for a token of k: the value, escaped in a code-like file
Inserted == IF IsCodeLike(tpl.filePath) THEN escapeForJS(tpl.value) ELSE tpl.value

\* C13: for a text made of plain text and tokens {{k}} or {{ k }}, the
\* result of processTemplate is that text with every token replaced by the
\* value of k (escaped when the file is code-like) and all other text as it was.
C13_LiteralSubstitution ==
  (Returned /\ tpl.content \in DOMAIN CutVariables) =>
    tpl.out = Concat([j \in 1..Len(CutVariables[tpl.content]) |->
                        IF CutVariables[tpl.content][j] \in KTokens
                        THEN Inserted
                        ELSE CutVariables[tpl.content][j]])

\* the identifiers of the tokens in the texts that are not fields of the row
UnknownTokens == {OpenVar \o <<"z">> \o CloseVar, OpenVar \o ValueOfKey \o CloseVar}

CutUnknown == Cut(Plain \cup UnknownTokens)

\* C14: a text made of plain text and tokens whose identifier is not a field
\* of the row is returned unchanged, whatever the identifier.
C14_UnknownTokenUnchanged ==
  (Returned /\ tpl.content \in DOMAIN CutUnknown) => tpl.out = tpl.content

\* the text str, placed between quotes, is the content of one string literal:
\* no quote and no line break outside an escape sequence, no backslash left open
RECURSIVE StaysInLiteral(_, _)
StaysInLiteral(str, p) ==
  IF p > Len(str) THEN TRUE
  ELSE IF str[p] = "\\" THEN p + 1 <= Len(str) /\ StaysInLiteral(str, p + 2)
  ELSE str[p] \notin {"'", "\"", "\n", "\r"} /\ StaysInLiteral(str, p + 1)

\* C15: in a code-like file the text inserted for the token {{k}} never ends
\* the quoted string literal it is placed in, for every value of k.
C15_EscapedForLiteral ==
  (Returned /\ IsCodeLike(tpl.filePath) /\ tpl.content = OpenVar \o <<"k">> \o CloseVar
     /\ tpl.rnd = <<>>)
    => StaysInLiteral(tpl.out, 1)

\* spans with the two alternatives a and b: plain, padded with blanks, and
\* with a line break inside
SpanAB == OpenSpan \o <<"a", "|", "b">> \o CloseSpan
SpanPadded == OpenSpan \o <<" ", "a", " ", "|", "b", " ">> \o CloseSpan
SpanTwoLines == OpenSpan \o <<"a", "\n", "|", "b">> \o CloseSpan

AB == {<<"a">>, <<"b">>}

\* the texts a list of segments may become when every span of Spans in it is
\* replaced by one of a and b
RECURSIVE Outcomes(_, _)
Outcomes(ss, Spans) ==
  IF ss = <<>> THEN {<<>>}
  ELSE {h \o r : h \in (IF Head(ss) \in Spans THEN AB ELSE {Head(ss)}),
                 r \in Outcomes(Tail(ss), Spans)}

CutAllSpans == Cut(Plain \cup {SpanAB, SpanPadded, SpanTwoLines})

\* C16 as stated: in a text made of plain text and spans with the trimmed
\* alternatives a and b every span is replaced by a or by b.
C16_Original ==
  (Returned /\ tpl.content \in DOMAIN CutAllSpans) =>
    tpl.out \in Outcomes(CutAllSpans[tpl.content], {SpanAB, SpanPadded, SpanTwoLines})

OneLineSpans == {SpanAB, SpanPadded}

CutOneLineSpans == Cut(Plain \cup OneLineSpans)

\* C16 amended: in a text made of plain text and spans that lie on one line
\* (no line break between [[ and ]]) with the trimmed alternatives a and b,
\* every span is replaced by a or by b and nothing else changes, and every
\* such result is a possible result of the call; `{{k}}[[a|b]]` with k = A
\* yields Aa or Ab.
C16_OneOfTheAlternatives ==
  /\ (Returned /\ tpl.content \in DOMAIN CutOneLineSpans) =>
       tpl.out \in Outcomes(CutOneLineSpans[tpl.content], OneLineSpans)
  /\ (tpl.phase = "call" /\ tpl.content \in DOMAIN CutOneLineSpans) =>
       Outcomes(CutOneLineSpans[tpl.content], OneLineSpans)
         \subseteq PossibleResults(tpl.content, Row(tpl.value), tpl.filePath)
  /\ (Returned /\ tpl.value = <<"A">>
        /\ tpl.content = OpenVar \o <<"k">> \o CloseVar \o SpanAB) =>
       tpl.out \in {<<"A", "a">>, <<"A", "b">>}

C16_Witness ==
  /\ Returned
  /\ tpl.content = <<"!">> \o SpanPadded
  /\ tpl.out = <<"!", "b">>

\* C17: the value inserted for a token of k appears verbatim in the result
\* even when it contains a span or a token, and two spans in one text are
\* resolved independently of one another.
C17_NoRescan ==
  /\ (Returned /\ tpl.content \in KTokens) => tpl.out = Inserted
  /\ (Returned /\ tpl.content = SpanAB \o SpanAB) =>
       tpl.out \in {x \o y : x \in AB, y \in AB}

\* spans without a non-empty alternative
EmptySpans ==
  {OpenSpan \o CloseSpan, OpenSpan \o <<"|">> \o CloseSpan,
   OpenSpan \o <<" ">> \o CloseSpan, OpenSpan \o <<" ", "|", " ">> \o CloseSpan}

CutEmptySpans == Cut(Plain \cup EmptySpans)

\* C18: a text made of plain text and spans whose alternatives are all empty
\* after trimming is returned unchanged, without a call of Math.random.
C18_EmptySpanUnchanged ==
  (Returned /\ tpl.content \in DOMAIN CutEmptySpans) =>
    tpl.out = tpl.content /\ tpl.rnd = <<>>

C18_Witness ==
  /\ Returned
  /\ tpl.content = OpenSpan \o <<" ", "|", " ">> \o CloseSpan
  /\ tpl.out = tpl.content

CutUnterminated == Cut(Plain \cup {OpenVar, OpenSpan})

\* C19: processTemplate returns for every text, and a text in which no `{{`
\* and no `[[` is closed is returned unchanged.
C19_NeverRaises ==
  /\ tpl.phase = "call" => PossibleResults(tpl.content, Row(tpl.value), tpl.filePath) # {}
  /\ (Returned /\ tpl.content \in DOMAIN CutUnterminated) => tpl.out = tpl.content

C19_Witness ==
  /\ Returned
  /\ tpl.content = OpenVar \o <<"k">>
  /\ tpl.out = tpl.content

\* C20: after the copy of any template tree no entry of the website
\* directory is, or lies inside, a directory named node_modules, build, dist
\* or .git, at any depth.
C20_ExcludedAtEveryLevel ==
  tree.phase = "copied" =>
    \A q \in tree.website : \A k \in 1..Len(q) : q[k] \notin SkippedNames

\* C21: after the copy of any template tree every entry of the template that
\* is not, and does not lie inside, a directory named node_modules, build,
\* dist or .git is present in the website directory, whatever its name.
C21_EverythingElseCopied ==
  tree.phase = "copied" =>
    \A q \in tree.template :
      (\A k \in 1..Len(q) : q[k] \notin SkippedNames) => q \in tree.website

\* the operations row i has started
StartedOps(i) == {log[i][k] : k \in 1..Len(log[i])}

\* C22: a row copies the template only into a directory that holds nothing
\* of an earlier run: when its copy starts, and from then on, its website
\* directory is absent or was written by rows of this run; under generate()
\* no directory of an earlier run is left once the rows are started.
C22_CleanCopy ==
  /\ \A i \in Rows : "copy" \in StartedOps(i) => dirOwner[Domain(i)] # -1
  /\ (entry = "generate" /\ gpc = "build") => \A d \in AllDomains : dirOwner[d] # -1

C22_Witness ==
  /\ entry = "parallel"
  /\ \E i \in Rows :
       /\ pc[i] = "succeeded"
       /\ dirOwner[Domain(i)] = i
       /\ \E d \in AllDomains : dirOwner[d] = -1

\* the file q lies inside a directory with one of the skipped names
InsideSkipped(q) == \E k \in 1..(Len(q) - 1) : q[k] \in SkippedNames

Elements(s) == {s[j] : j \in 1..Len(s)}

\* C23: processDirectory never lists, reads or writes a file that lies inside
\* a directory named node_modules, build, dist or .git, at any depth, and the
\* content of every such file stays what it was, whatever its extension.
C23_SkipsExcluded ==
  walk.phase # "idle" =>
    /\ \A q \in Elements(walk.files) \cup Elements(walk.reads) \cup Elements(walk.writes) :
         ~InsideSkipped(q)
    /\ \A q \in FilesOf(walk.tree) :
         InsideSkipped(q) => walk.disk[q] = InitialDisk(walk.tree)[q]

C23_Witness ==
  /\ walk.phase = "returned"
  /\ \E q \in FilesOf(walk.tree) :
       /\ Len(q) = 3
       /\ q[1] \notin SkippedNames
       /\ q[2] \in SkippedNames
       /\ ExtName(q[3]) \in DefaultExtensions
       /\ walk.disk[q] = FileText
  /\ \E r \in FilesOf(walk.tree) : walk.disk[r] # FileText

\* C25: a call of processDirectory that returns hands its caller the number
\* of files it processed.
C25_ReturnsCount ==
  walk.phase = "returned" =>
    walk.result = [type |-> "number", value |-> Len(walk.writes)]

\* the files processDirectory has rewritten
Rewritten == {walk.files[j] : j \in 1..(walk.next - 1)}

\* the script-like and the markup or data-like extensions of the list
ScriptLike ==
  {<<".", "j", "s">>, <<".", "j", "s", "x">>, <<".", "t", "s">>, <<".", "t", "s", "x">>}
MarkupLike == {<<".", "h", "t", "m", "l">>, <<".", "j", "s", "o", "n">>}

\* C27: a rewritten file with the extension .js, .jsx, .ts or .tsx holds the
\* escaped value of k in place of the token, and a rewritten file with the
\* extension .html or .json holds the value as it is.
C27_EscapedByExtension ==
  walk.phase # "idle" =>
    \A q \in Rewritten :
      /\ ExtName(q[Len(q)]) \in ScriptLike => walk.disk[q] = escapeForJS(walk.value)
      /\ ExtName(q[Len(q)]) \in MarkupLike => walk.disk[q] = walk.value

\* the content processFile writes for a file of the directory
RewrittenTexts(q) == PossibleResults(FileText, Row(walk.value), RelativePath(q))

\* C28: processDirectory reads and writes the files in the order of the
\* list, each at most once; it returns only when every file was written; a
\* failure of readdir, readFile or writeFile ends the call with that error,
\* with every file before the failing one rewritten and every file after it
\* neither read nor written.
C28_AbortsOnFailure ==
  walk.phase # "idle" =>
    /\ walk.reads = SubSeq(walk.files, 1, Len(walk.reads))
    /\ walk.writes = SubSeq(walk.files, 1, Len(walk.writes))
    /\ Len(walk.writes) <= Len(walk.reads) /\ Len(walk.reads) <= Len(walk.writes) + 1
    /\ walk.phase = "returned" => walk.writes = walk.files /\ walk.error = None
    /\ walk.phase = "threw" =>
         /\ walk.error # None
         /\ walk.result = None
         /\ IF walk.error.op = "readdir"
            THEN walk.reads = <<>> /\ walk.disk = InitialDisk(walk.tree)
            ELSE /\ walk.error.file = walk.files[walk.next]
                 /\ Len(walk.reads) = walk.next
                 /\ Len(walk.writes) = (IF walk.error.op = "readFile" THEN walk.next - 1
                                        ELSE walk.next)
         /\ \A j \in 1..Len(walk.files) :
              /\ j < walk.next => walk.disk[walk.files[j]] \in RewrittenTexts(walk.files[j])
              /\ j > walk.next => walk.disk[walk.files[j]] = FileText

C28_Witness ==
  /\ walk.phase = "threw"
  /\ walk.error.op = "writeFile"
  /\ Len(walk.files) = 3
  /\ walk.next = 2
  /\ walk.disk[walk.files[1]] # FileText
  /\ walk.disk[walk.files[3]] = FileText

\* the first operation of row i that failed
FirstFailed(i) ==
  log[i][CHOOSE k \in 1..Len(outcome[i]) :
           outcome[i][k] = "fail" /\ \A h \in 1..(k - 1) : outcome[i][h] = "ok"]

\* the two shapes of a result of the row with domain d
IsSuccessShape(r, d) ==
  /\ DOMAIN r = {"domain", "success", "path"}
  /\ r.domain = d
  /\ r.success = TRUE
  /\ r.path = WebsitePath(d)

IsFailureShape(r, d) ==
  /\ DOMAIN r = {"domain", "success", "error"}
  /\ r.domain = d
  /\ r.success = FALSE
  /\ r.error \in {ErrorMessage(op) : op \in OperationSet}

\* C26: the value a buildWebsite call resolves with, and every entry of the
\* results array, is either {domain, success: true, path} with the row's
\* domain and website path, or {domain, success: false, error} with the row's
\* domain and the message of the error thrown by the first operation that failed.
C26_ResultShapes ==
  /\ \A i \in Rows :
       ret[i] # None =>
         IF pc[i] = "succeeded"
         THEN IsSuccessShape(ret[i], Domain(i))
         ELSE /\ IsFailureShape(ret[i], Domain(i))
              /\ ret[i].error = ErrorMessage(FirstFailed(i))
  /\ \A k \in 1..Len(results) :
       IsSuccessShape(results[k], Domain(k)) \/ IsFailureShape(results[k], Domain(k))

C26_Witness ==
  /\ Len(results) >= 2
  /\ IsSuccessShape(results[1], Domain(1))
  /\ IsFailureShape(results[2], Domain(2))
  /\ results[2].error = ErrorMessage("processDirectory")

\* C30: the test for package.json never fails a row; in a project without
\* package.json the row goes from that test straight to installDependencies,
\* never reads or writes the manifest, and can succeed.
C30_NoManifestSkipsFinalize ==
  \A i \in Rows :
    /\ \A k \in 1..Len(log[i]) :
         log[i][k] = "pathExists" =>
           /\ Len(outcome[i]) >= k => outcome[i][k] = "ok" /\ Len(log[i]) > k
           /\ Len(log[i]) > k =>
                log[i][k + 1] \in (IF hasManifest THEN {"readJson", "installDependencies"}
                                    ELSE {"installDependencies"})
    /\ ~hasManifest => StartedOps(i) \cap {"readJson", "writeJson"} = {}
    /\ (~hasManifest /\ pc[i] = "succeeded") => log[i] = WithoutManifest

C30_Witness ==
  /\ ~hasManifest
  /\ \E i \in Rows : pc[i] = "succeeded" /\ log[i] = WithoutManifest

Digits == {"0", "1", "2", "3", "4", "5", "6", "7", "8", "9"}

\* the row's finalize has completed: package.json is written
ManifestFinalized == pkg # Idle /\ pkg.pc = "installDependencies"

\* C24: in the package.json written for a row, name consists of lowercase
\* letters, digits and hyphens only, for every domain, and homepage is
\* https:// followed by the domain.
C24_SafePackageName ==
  ManifestFinalized =>
    /\ \A j \in 1..Len(pkg.file["name"]) :
         pkg.file["name"][j] \in Elements(LowerCase) \cup Digits \cup {"-"}
    /\ pkg.file["homepage"] = <<"h", "t", "t", "p", "s", ":", "/", "/">> \o pkg.domain

\* the members of package.json that the finalize does not assign
OtherKeys == DOMAIN pkg.template \ {"name", "homepage"}

SubstitutedText(key) ==
  PossibleResults(pkg.template[key], Row(pkg.value), PackageJsonPath)

\* C29: package.json is read for the finalize only after processDirectory
\* has rewritten it, so the object that is finalized holds the substituted
\* members; and the manifest written by a successful finalize has the name
\* and the homepage derived from the domain, whatever the template held
\* there and whatever the substitution made of it, and all other members as
\* substituted.
C29_FinalizeAfterSubstitution ==
  pkg # Idle =>
    /\ pkg.packageJson # None =>
         \A key \in OtherKeys : pkg.packageJson[key] \in SubstitutedText(key)
    /\ pkg.pc \in {"pathExists", "readJson"} =>
         \A key \in DOMAIN pkg.template : pkg.file[key] \in SubstitutedText(key)
    /\ pkg.pc = "installDependencies" =>
         /\ DOMAIN pkg.file = DOMAIN pkg.template \cup {"name", "homepage"}
         /\ pkg.file["name"] = PackageName(pkg.domain)
         /\ pkg.file["homepage"] = Homepage(pkg.domain)
         /\ \A key \in OtherKeys : pkg.file[key] \in SubstitutedText(key)

C29_Witness ==
  /\ ManifestFinalized
  /\ pkg.domain = <<"B", ".">>
  /\ pkg.template["name"] = FileText
  /\ "homepage" \notin DOMAIN pkg.template
  /\ pkg.template["description"] = FileText
  /\ pkg.file["name"] = <<"b", "-">>
  /\ pkg.file["description"] = <<"A">>

\* C31 as stated: the summary is written only when every row is terminal,
\* and a run whose rows have all ended has written it.
C31_Original ==
  /\ summary # None => AllTerminal
  /\ (RunEnded /\ RowsHandedOver /\ AllTerminal) => summary # None

C31_Written ==
  /\ summary # None =>
       /\ AllTerminal
       /\ gpc = "finished"
       /\ Len(results) = Len(websites)
       /\ summary.total = Len(websites)
  /\ (RunEnded /\ RowsHandedOver) => (summary # None \/ genError.kind = "writeSummary")

C31_WrittenOnce ==
  /\ summary' # summary => summary = None /\ AllTerminal /\ gpc = "summary"
  /\ summary # None => pc' = pc /\ log' = log /\ outcome' = outcome /\ ret' = ret

\* C31 amended: the summary is written at most once per run, only when every
\* row of the run is terminal and its result collected, and no row step
\* happens after it; a run that has handed its rows to the orchestrator ends
\* with the summary written unless the write of the summary itself failed, in
\* which case no summary is written.
C31_SummaryOnceAtTheEnd == []C31_Written /\ [][C31_WrittenOnce]_vars

C31_Witness ==
  /\ summary # None
  /\ gpc = "finished"
  /\ Len(websites) >= 2
  /\ pc[1] = "failed"
  /\ pc[2] = "succeeded"

\* the text holds no span: the pattern of the second pass matches nowhere in it
NoSpanIn(t) == \A p \in 1..Len(t) : ~SpanAt(t, p).ok

\* C32: for a text without a span every call of processTemplate with the
\* same text, row and file path returns what this call returned.
C32_DeterministicWithoutSpans ==
  (Returned /\ NoSpanIn(tpl.content)) =>
    PossibleResults(tpl.content, Row(tpl.value), tpl.filePath) = {tpl.out}

CutTwoLines == Cut(Plain \cup {SpanTwoLines})

\* the text has, at some `[[`, a first following `]]` with no line break in
\* between and at least one alternative that is not blank
HasOneLineSpan(t) ==
  \E p \in 1..Len(t), q \in 1..Len(t) :
    /\ PairAt(t, p, "[") /\ q >= p + 2 /\ PairAt(t, q, "]")
    /\ \A h \in (p + 2)..(q - 1) : ~PairAt(t, h, "]") /\ t[h] \notin LineTerminators
    /\ Choices(SubSeq(t, p + 2, q - 1)) # <<>>

\* C37: a text made of plain text and spans [[a<line break>|b]] is returned
\* unchanged; a span on one line runs from its [[ to the first ]] after it:
\* `[[a|b]]]]` yields a]] or b]], `[[[[a|b]]` yields [[a or b; and a text
\* without a token is changed exactly when it holds a [[ whose first
\* following ]] is on the same line with an alternative that is not blank.
C37_SpansWithinOneLine ==
  /\ (Returned /\ tpl.content \in DOMAIN CutTwoLines) => tpl.out = tpl.content
  /\ (Returned /\ tpl.content = SpanAB \o CloseSpan) =>
       tpl.out \in {<<"a">> \o CloseSpan, <<"b">> \o CloseSpan}
  /\ (tpl.phase = "call" /\ tpl.content = SpanAB \o CloseSpan) =>
       PossibleResults(tpl.content, Row(tpl.value), tpl.filePath)
         = {<<"a">> \o CloseSpan, <<"b">> \o CloseSpan}
  /\ (Returned /\ tpl.content = OpenSpan \o SpanAB) =>
       tpl.out \in {OpenSpan \o <<"a">>, <<"b">>}
  /\ (Returned /\ \A p \in 1..Len(tpl.content) : tpl.content[p] # "{") =>
       (tpl.out # tpl.content <=> HasOneLineSpan(tpl.content))

C37_Witness ==
  /\ Returned
  /\ tpl.content = SpanTwoLines \o SpanTwoLines
  /\ tpl.out = tpl.content
  /\ tpl.rnd = <<>>

\* C35: no file is read or written before processDirectory holds the
\* complete list of the matching files of the tree, and when the
\* enumeration fails the call ends with that error with every file of the
\* tree as it was and no file read or written.
C35_EnumerateBeforeRewrite ==
  walk.phase # "idle" =>
    /\ (walk.reads # <<>> \/ walk.writes # <<>> \/ walk.disk # InitialDisk(walk.tree)) =>
         /\ walk.files = getAllFiles(walk.tree, DefaultExtensions, walk.order)
         /\ walk.files # <<>>
         /\ ~(walk.phase = "threw" /\ walk.error.op = "readdir")
    /\ (walk.phase = "threw" /\ walk.error.op = "readdir") =>
         /\ walk.files = <<>>
         /\ walk.result = None
         /\ \A q \in FilesOf(walk.tree) : walk.disk[q] = FileText

C35_Witness ==
  /\ walk.phase = "threw"
  /\ walk.error.op = "readdir"
  /\ Len(getAllFiles(walk.tree, DefaultExtensions, walk.order)) = 3
  /\ walk.writes = <<>>
  /\ walk.disk = InitialDisk(walk.tree)

\* with group size 1 the chunks are the rows, one by one, and the chunk loop
\* resumes, collects and goes on exactly when the row loop would
C34_SameLoop ==
  (gpc = "build" /\ maxConcurrent = 1) =>
    /\ Chunks = [c \in Rows |-> <<c>>]
    /\ (cur = 0 \/ (cur \in 1..Len(Chunks) /\ \A i \in ChunkRows(cur) : Settled(i)))
         <=> (cur = 0 \/ SeqAwaitDone(cur))
    /\ SeqAwaitDone(cur) => PushAll(results, Chunks[cur]) = Push(results, ret[cur])
    /\ cur < Len(Chunks) <=> SeqHasNext(cur)
    /\ SeqHasNext(cur) => ChunkRows(cur + 1) = {cur + 1}

\* with group size 1 both loops start the rows in index order, one at a time
C34_SameOrder ==
  maxConcurrent = 1 =>
    /\ Cardinality({i \in Rows : InFlight(i)}) <= 1
    /\ \A i, j \in Rows : i < j /\ Started(j) => pc[i] \in Terminal
    /\ \A k \in 1..Len(results) : results[k] = ret[k]
    /\ RunCollected => Len(results) = Len(websites)

\* with group size 1 a step is a turn of the chunk loop exactly when it is a
\* turn of the row loop
C34_SameTurn == maxConcurrent = 1 => (ParallelTurn <=> SequentialTurn)

\* C34: with group size 1, from every state of a run of either function, the
\* turns of buildWebsitesParallel and of buildWebsitesSequential are the same
\* steps: the same condition to resume, the same result collected, the same
\* next row started or the same return; rows run one at a time in index
\* order and the results are those of the rows in that order.
C34_GroupOfOneIsSequential == [](C34_SameLoop /\ C34_SameOrder) /\ [][C34_SameTurn]_vars

C34_Witness ==
  /\ entry = "parallel"
  /\ maxConcurrent = 1
  /\ gpc = "summary"
  /\ Len(results) = 2
  /\ ~results[1].success
  /\ results[2].success

\* C33: for every group size the chunk loop of buildWebsitesParallel ends
\* within one turn per row, and the call returns one result per row, the
\* k-th result being that of the k-th row.
C33_OneResultPerRowForAnyGroupSize ==
  par.phase # "idle" =>
    /\ Len(par.chunks) <= Len(par.websites)
    /\ par.phase = "returned" =>
         /\ Len(par.results) = Len(par.websites)
         /\ \A k \in 1..Len(par.results) : par.results[k].domain = par.websites[k]

\* the promise is settled exactly when an 'error' or a 'close' event was
\* delivered, with what the first of them decides, and the awaiting caller
\* is resumed at most once, with that outcome
C36_DecidedByFirst ==
  child.phase # "idle" =>
    /\ child.settled = None <=> child.delivered = <<>>
    /\ child.delivered # <<>> =>
         LET first == child.delivered[1]
         IN /\ child.settled.ok <=> (first.event = "close" /\ first.code = 0)
            /\ ~child.settled.ok =>
                 /\ child.settled.kind = (IF first.event = "close" THEN "exit" ELSE "spawn")
                 /\ child.settled.code = first.code
    /\ Len(child.jobs) + Len(child.observed) <= 1
    /\ \A k \in 1..Len(child.jobs) : child.jobs[k] = child.settled
    /\ \A k \in 1..Len(child.observed) : child.observed[k] = child.settled

\* no event changes a decided outcome or what the caller has observed
C36_NeverRedecided ==
  (child.phase # "idle" /\ child.settled # None) =>
    /\ child.settled' = child.settled
    /\ child.observed # <<>> => child.observed' = child.observed

\* C36: the promise of runCommand is settled by the first 'error' or 'close'
\* event delivered; when both are delivered, in either order, the later one
\* changes neither the decided success or failure nor what the awaiting
\* caller observed, and the caller is resumed at most once.
C36_SettledOnce == []C36_DecidedByFirst /\ [][C36_NeverRedecided]_vars

C36_Witness ==
  /\ child.phase = "spawned"
  /\ Len(child.delivered) = 2
  /\ child.delivered[1] = [event |-> "close", code |-> 0]
  /\ child.delivered[2].event = "error"
  /\ child.settled.ok
  /\ child.observed = <<child.settled>>
  /\ child.stdout # <<>>

====
